---- MODULE Spec2Model ----
(***************************************************************************)
(* A model of qosst-sim: modulations, detectors, the Gaussian channel and  *)
(* the simulator hierarchy (finite-size Monte-Carlo estimator and the two  *)
(* asymptotic calculators).                                                *)
(*                                                                         *)
(* Numbers.  A Python/numpy float is modelled by a pair <<n, d>>:          *)
(*   d > 0   the rational n/d in lowest terms,                             *)
(*   d = 0   a non-finite float: <<0,0>> is nan, <<1,0>> inf, <<-1,0>> -inf*)
(*   d < 0   a raised exception (the pair then names which), which every   *)
(*           later operation of the same expression passes on unchanged.   *)
(* Floats have finite precision: a result whose denominator exceeds        *)
(* 2^PrecBits is rounded down to the grid of multiples of 2^-PrecBits, so  *)
(* arithmetic is exact on rationals of small denominator and rounded       *)
(* elsewhere.  The irrational functions (sqrt, log2) are exact where their *)
(* value is rational and rounded down to a coarser binary grid elsewhere.  *)
(***************************************************************************)
EXTENDS Integers, Sequences, FiniteSets, TLC

\* number of fractional bits kept by a rounded square root
SqrtBits == 5
\* number of fractional bits kept by a rounded base-2 logarithm
LogBits == 5
\* bits of the mantissa carried while a logarithm's fractional bits are extracted
MantBits == LogBits + 7
\* fractional bits of the grid that results of large denominator are rounded to
PrecBits == SqrtBits + 3

NaN == <<0, 0>>
PosInf == <<1, 0>>
NegInf == <<-1, 0>>
ZeroDivisionError == <<1, -1>>
ValueError == <<2, -1>>
AttributeError == <<3, -1>>

Zero == <<0, 1>>
One == <<1, 1>>
Two == <<2, 1>>
Half == <<1, 2>>

IsExc(x) == x[2] < 0
IsNaN(x) == x = NaN
IsInf(x) == x[2] = 0 /\ x[1] # 0
IsFin(x) == x[2] > 0

AbsI(i) == IF i < 0 THEN -i ELSE i
SgnI(i) == IF i < 0 THEN -1 ELSE IF i > 0 THEN 1 ELSE 0

RECURSIVE GCD(_, _)
GCD(a, b) == IF b = 0 THEN a ELSE GCD(b, a % b)

\* n/d, d # 0, in lowest terms
ReduceBy(n, d, g) == <<(SgnI(d) * n) \div g, AbsI(d) \div g>>
Reduce(n, d) == ReduceBy(n, d, GCD(AbsI(n), AbsI(d)))

\* the largest power of two that is at most m, for m >= 1
RECURSIVE Pow2BelowFrom(_, _)
Pow2BelowFrom(m, p) == IF 2 * p > m THEN p ELSE Pow2BelowFrom(m, 2 * p)
Pow2Below(m) == Pow2BelowFrom(m, 1)

\* the largest numerator a float carries: its significant bits
MantissaCap == 2^15
\* the largest denominator the rounding steps divide by exactly
ExactDen == 2^20

\* floor(n * e / d) / e for a power of two e, d > 0
OnGrid(n, d, e) == Reduce((n \div d) * e + ((n % d) * e) \div d, e)

\* n/d, d > 2^PrecBits, rounded down to the grid of multiples of 2^-PrecBits
OnGridScaled(n, d, h) == OnGrid(n \div h, d \div h, 2^PrecBits)
ToGrid(n, d) ==
    OnGridScaled(n, d, IF d <= ExactDen THEN 1 ELSE Pow2Below(d \div ExactDen) * 2)

\* a float of too many significant bits loses its low ones
MantissaGrid(cap, d) == IF cap < 1 THEN 1 ELSE Pow2Below(IF cap < d THEN cap ELSE d)
ToMantissa(r) ==
    IF AbsI(r[1]) <= MantissaCap \/ r[2] = 1 THEN r
    ELSE OnGrid(r[1], r[2], MantissaGrid(MantissaCap \div ((AbsI(r[1]) \div r[2]) + 1), r[2]))

\* the float nearest below n/d (in lowest terms, d > 0): n/d itself when its
\* denominator and numerator are small
Round(n, d) == ToMantissa(IF d <= 2^PrecBits THEN <<n, d>> ELSE ToGrid(n, d))
RoundOf(r) == Round(r[1], r[2])

\* the float n/d, d # 0
Rat(n, d) == RoundOf(Reduce(n, d))

IntV(i) == <<i, 1>>

Neg(x) == IF IsExc(x) THEN x ELSE <<-x[1], x[2]>>

\* the sum of two finite floats, g being the gcd of their denominators
AddOver(x, y, g) ==
    Rat(x[1] * (y[2] \div g) + y[1] * (x[2] \div g), (x[2] \div g) * y[2])

Add(x, y) ==
    IF IsExc(x) THEN x
    ELSE IF IsExc(y) THEN y
    ELSE IF IsNaN(x) \/ IsNaN(y) THEN NaN
    ELSE IF IsInf(x) THEN (IF IsInf(y) /\ y # x THEN NaN ELSE x)
    ELSE IF IsInf(y) THEN y
    ELSE AddOver(x, y, GCD(x[2], y[2]))

Sub(x, y) == Add(x, Neg(y))

\* the product of two finite floats, cancelling g1 and g2 across
MulOver(x, y, g1, g2) ==
    Round((x[1] \div g1) * (y[1] \div g2), (x[2] \div g2) * (y[2] \div g1))

Mul(x, y) ==
    IF IsExc(x) THEN x
    ELSE IF IsExc(y) THEN y
    ELSE IF IsNaN(x) \/ IsNaN(y) THEN NaN
    ELSE IF IsInf(x) \/ IsInf(y)
         THEN (IF x[1] = 0 \/ y[1] = 0 THEN NaN ELSE <<SgnI(x[1]) * SgnI(y[1]), 0>>)
    ELSE IF x[1] = 0 \/ y[1] = 0 THEN Zero
    ELSE MulOver(x, y, GCD(AbsI(x[1]), y[2]), GCD(AbsI(y[1]), x[2]))

Sq(x) == Mul(x, x)

\* x / y for y not a finite zero
DivNonZero(x, y) ==
    IF IsNaN(x) \/ IsNaN(y) THEN NaN
    ELSE IF IsInf(y) THEN (IF IsInf(x) THEN NaN ELSE Zero)
    ELSE IF IsInf(x) THEN <<SgnI(x[1]) * SgnI(y[1]), 0>>
    ELSE Mul(x, <<SgnI(y[1]) * y[2], AbsI(y[1])>>)

\* Python's float division: a zero divisor raises
PyDiv(x, y) ==
    IF IsExc(x) THEN x
    ELSE IF IsExc(y) THEN y
    ELSE IF y = Zero THEN ZeroDivisionError
    ELSE DivNonZero(x, y)

\* numpy's float64 division: a zero divisor gives inf or nan (and a warning)
NpDiv(x, y) ==
    IF IsExc(x) THEN x
    ELSE IF IsExc(y) THEN y
    ELSE IF y = Zero
         THEN (IF IsNaN(x) \/ x = Zero THEN NaN ELSE <<SgnI(x[1]), 0>>)
    ELSE DivNonZero(x, y)

\* comparisons of floats: false as soon as one side is nan (or an exception)
Lt(x, y) ==
    /\ ~IsExc(x) /\ ~IsExc(y) /\ ~IsNaN(x) /\ ~IsNaN(y)
    /\ IF IsInf(x) THEN x = NegInf /\ y # NegInf
       ELSE IF IsInf(y) THEN y = PosInf
       ELSE x[1] * y[2] < y[1] * x[2]

Le(x, y) ==
    /\ ~IsExc(x) /\ ~IsExc(y) /\ ~IsNaN(x) /\ ~IsNaN(y)
    /\ (x = y \/ Lt(x, y))

AbsV(x) == IF IsExc(x) THEN x ELSE <<AbsI(x[1]), x[2]>>

\* floor of the square root of the integer n >= 0, by bisection on [lo, hi)
RECURSIVE ISqrtIn(_, _, _)
ISqrtIn(n, lo, hi) ==
    IF hi - lo <= 1 THEN lo
    ELSE LET mid == (lo + hi) \div 2
         IN  IF mid * mid <= n THEN ISqrtIn(n, mid, hi) ELSE ISqrtIn(n, lo, mid)

ISqrt(n) == ISqrtIn(n, 0, IF n < 46340 THEN n + 1 ELSE 46341)

\* the square root of a finite x >= 0, rn and rd being the integer roots of its
\* numerator and denominator: exact on squares of rationals, else rounded to
\* the nearest multiple of 2^-SqrtBits, as a correctly rounded root is (the
\* root floored at one more bit, then halved upwards)
SqrtOver(x, rn, rd) ==
    IF rn * rn = x[1] /\ rd * rd = x[2] THEN <<rn, rd>>
    ELSE Rat((ISqrt((x[1] * 4^(SqrtBits + 1)) \div x[2]) + 1) \div 2, 2^SqrtBits)

SqrtFin(x) == SqrtOver(x, ISqrt(x[1]), ISqrt(x[2]))

\* math.sqrt: a negative argument raises, nan and inf pass
MathSqrt(x) ==
    IF IsExc(x) THEN x
    ELSE IF IsNaN(x) \/ x = PosInf THEN x
    ELSE IF x[1] < 0 THEN ValueError
    ELSE SqrtFin(x)

\* numpy.sqrt on a real float: a negative argument gives nan (and a warning)
NpSqrt(x) ==
    IF IsExc(x) THEN x
    ELSE IF IsNaN(x) \/ x = PosInf THEN x
    ELSE IF x[1] < 0 THEN NaN
    ELSE SqrtFin(x)

IsPow2(n) == n >= 1 /\ Pow2Below(n) = n
Exp2(n) == CHOOSE k \in 0..30 : n = 2^k

\* the integer e with 2^e <= n/d < 2^(e+1), for n, d > 0
RECURSIVE FloorLog2From(_, _, _)
FloorLog2From(n, d, e) ==
    IF e >= 0
    THEN (IF n < d * 2^(e + 1) THEN e ELSE FloorLog2From(n, d, e + 1))
    ELSE (IF n * 2^(-e) >= d THEN e ELSE FloorLog2From(n, d, e - 1))

FloorLog2(n, d) == IF n >= d THEN FloorLog2From(n, d, 0) ELSE FloorLog2From(n, d, -1)

\* the first `bits` fractional bits of log2(m / 2^MantBits), 2^MantBits <= m < 2^(MantBits+1)
RECURSIVE FracBits(_, _, _)
FracBits(m, bits, acc) ==
    IF bits = 0 THEN acc
    ELSE LET sq == (m * m) \div 2^MantBits
         IN  IF sq >= 2^(MantBits + 1)
             THEN FracBits(sq \div 2, bits - 1, 2 * acc + 1)
             ELSE FracBits(sq, bits - 1, 2 * acc)

\* log2 of a finite x > 0: exact on powers of two, else rounded to LogBits bits
\* the mantissa of x, 2^e <= x < 2^(e+1), on MantBits fractional bits
Mantissa(x, e) ==
    IF e >= 0 THEN (x[1] * 2^MantBits) \div (x[2] * 2^e)
    ELSE (x[1] * 2^(MantBits - e)) \div x[2]

\* log2 of a finite x > 0 that is no power of two, e being its integer part
Log2Over(x, e) == Rat(e * 2^LogBits + FracBits(Mantissa(x, e), LogBits, 0), 2^LogBits)

Log2Fin(x) ==
    IF x[2] = 1 /\ IsPow2(x[1]) THEN IntV(Exp2(x[1]))
    ELSE IF x[1] = 1 /\ IsPow2(x[2]) THEN IntV(-Exp2(x[2]))
    ELSE Log2Over(x, FloorLog2(x[1], x[2]))

\* math.log2: a zero or negative argument raises, nan and inf pass
MathLog2(x) ==
    IF IsExc(x) THEN x
    ELSE IF IsNaN(x) \/ x = PosInf THEN x
    ELSE IF x[1] <= 0 THEN ValueError
    ELSE Log2Fin(x)

\* the first exception among the values of a sequence, or Zero when none raised
RECURSIVE FirstExcFrom(_, _)
FirstExcFrom(vs, i) ==
    IF i > Len(vs) THEN Zero
    ELSE IF IsExc(vs[i]) THEN vs[i]
    ELSE FirstExcFrom(vs, i + 1)

FirstExc(vs) == FirstExcFrom(vs, 1)

\* an array held in memory: each element is computed once, when the array is built
Array(f) == f \o <<>>

(***************************************************************************)
(* Math utilities (utils.py)                                               *)
(***************************************************************************)
kron(i, j) == IF i = j THEN 1 ELSE 0

\* g continued to its limit 0 where it is not defined
GClampedAtZero(x) ==
    IF IsFin(x) /\ x[1] <= 0 THEN Zero
    ELSE Sub(Mul(Add(x, One), MathLog2(Add(x, One))), Mul(x, MathLog2(x)))

g(x) == Sub(Mul(Add(x, One), MathLog2(Add(x, One))), Mul(x, MathLog2(x)))

delta(v, w, z) == Sub(Add(Sq(v), Sq(w)), Mul(Two, Sq(z)))

\* gamma with the sign of its last term turned
GammaSubtractingQuartic(v, w, z) ==
    Sub(Sub(Mul(Sq(v), Sq(w)), Mul(Mul(Mul(Two, v), w), Sq(z))), Sq(Sq(z)))

gamma(v, w, z) == Add(Sub(Mul(Sq(v), Sq(w)), Mul(Mul(Mul(Two, v), w), Sq(z))), Sq(Sq(z)))

(***************************************************************************)
(* Detectors (detector.py).  A detector is a record [kind, eta, vel].      *)
(* znp tells whether the Z handed in is a numpy float64 (as it is when     *)
(* skr() passes covariance()'s z_star): a division whose numerator holds Z *)
(* then follows numpy's rules, otherwise Python's.                         *)
(***************************************************************************)
Div(znp, x, y) == IF znp THEN NpDiv(x, y) ELSE PyDiv(x, y)

IdealHeterodyneDetector == [kind |-> "ideal", eta |-> One, vel |-> Zero]

NoisyHeterodyneDetector(eta, Vel) == [kind |-> "noisy", eta |-> eta, vel |-> Vel]

\* v1, v2 of both detectors (detector.py 94-98 and 157-161)
SymplV1Of(delt, gam) ==
    MathSqrt(Mul(Add(delt, MathSqrt(Sub(Sq(delt), Mul(IntV(4), gam)))), Half))

SymplV1(V, W, Z) == SymplV1Of(delta(V, W, Z), gamma(V, W, Z))

SymplV2Of(delt, gam) ==
    MathSqrt(Mul(Sub(delt, MathSqrt(Sub(Sq(delt), Mul(IntV(4), gam)))), Half))

SymplV2(V, W, Z) == SymplV2Of(delta(V, W, Z), gamma(V, W, Z))

\* the homodyne form of v3, without the unit of vacuum noise
IdealV3Homodyne(V, W, Z, znp) == Sub(V, Div(znp, Sq(Z), W))

IdealV3(V, W, Z, znp) == Sub(V, Div(znp, Sq(Z), Add(W, One)))

\* IdealHeterodyneDetector.sympl: <<v1, v2, v3>>
IdealSympl(V, W, Z, znp) == <<SymplV1(V, W, Z), SymplV2(V, W, Z), IdealV3(V, W, Z, znp)>>

\* the docstring's nu computed only where it is defined, 1 at eta = 1
NoisyNuGuarded(eta, vel) ==
    IF eta = One THEN One ELSE Add(One, PyDiv(Mul(Two, vel), Sub(One, eta)))

\* the value the docstring gives nu, computed and then overwritten (detector.py 163)
NoisyNuDocumented(eta, vel) == Add(One, PyDiv(Mul(Two, vel), Sub(One, eta)))

\* detector.py 164
NoisyNu == One

NoisyDenominator(W, eta, nu) == Sub(Add(Add(One, Mul(W, eta)), nu), Mul(eta, nu))

\* r1 of NoisyHeterodyneDetector.sympl (detector.py 166-175)
NoisyR1(V, W, Z, eta, nu, znp) ==
    LET den == NoisyDenominator(W, eta, nu)
        t1 == Sq(Sub(Mul(V, den), Mul(eta, Sq(Z))))
        t2 == Sq(Add(Mul(eta, nu), Mul(W, Add(Sub(One, eta), nu))))
        t3 == Sq(Add(Add(One, nu), Mul(eta, Sub(Mul(W, nu), One))))
        t4 == Mul(Mul(Mul(Two, Sub(One, eta)), Sq(Add(nu, One))), Sq(Z))
        t5 == Mul(Mul(Mul(Mul(Two, eta), Sub(One, eta)), Sub(Sq(nu), One)), Sq(Z))
        t6 == Mul(Mul(Mul(Two, eta), Sub(Sq(nu), One)), Sq(Add(One, W)))
        num == Sub(Sub(Sub(Add(Add(t1, t2), t3), t4), t5), t6)
    IN  Sub(Div(znp, num, Sq(den)), One)

\* r2 of NoisyHeterodyneDetector.sympl (detector.py 176-178)
NoisyR2(V, W, Z, eta, nu, znp) ==
    LET den == NoisyDenominator(W, eta, nu)
        num == Sq(Add(Sub(Sq(Z), Mul(V, Add(W, eta))),
                      Mul(Mul(Sub(Mul(V, W), Sq(Z)), Add(IntV(-1), eta)), nu)))
    IN  Div(znp, num, Sq(den))

NoisyV3(r1, r2) ==
    MathSqrt(Mul(Half, Add(r1, MathSqrt(Sub(Sq(r1), Mul(IntV(4), r2))))))

NoisyV4(r1, r2) ==
    MathSqrt(Mul(Half, Sub(r1, MathSqrt(Sub(Sq(r1), Mul(IntV(4), r2))))))

\* NoisyHeterodyneDetector.sympl: <<v1, v2, v3, v4>>; when a step raises, the
\* values after it are not computed and the first exception is all that is left
NoisySymplOf(v1, v2, early, r1, r2) ==
    IF IsExc(early) THEN <<early, early, early, early>>
    ELSE <<v1, v2, NoisyV3(r1, r2), NoisyV4(r1, r2)>>

NoisySymplOn(v1, v2, nuDoc, r1, r2) ==
    NoisySymplOf(v1, v2, FirstExc(<<v1, v2, nuDoc>>), r1, r2)

\* sympl keeping the nu of the docstring, 1 + 2 vel / (1 - eta)
NoisySymplDocumentedNu(det, V, W, Z, znp) ==
    NoisySymplOn(SymplV1(V, W, Z), SymplV2(V, W, Z),
                 NoisyNuDocumented(det.eta, det.vel),
                 NoisyR1(V, W, Z, det.eta, NoisyNuDocumented(det.eta, det.vel), znp),
                 NoisyR2(V, W, Z, det.eta, NoisyNuDocumented(det.eta, det.vel), znp))

NoisySympl(det, V, W, Z, znp) ==
    NoisySymplOn(SymplV1(V, W, Z), SymplV2(V, W, Z),
                 NoisyNuDocumented(det.eta, det.vel),
                 NoisyR1(V, W, Z, det.eta, NoisyNu, znp),
                 NoisyR2(V, W, Z, det.eta, NoisyNu, znp))

sympl(det, V, W, Z, znp) ==
    IF det.kind = "ideal" THEN IdealSympl(V, W, Z, znp) ELSE NoisySympl(det, V, W, Z, znp)

GTerm(v) == g(Mul(Sub(v, One), Half))

\* IdealHeterodyneDetector.holevo_bound on the eigenvalues vs
IdealHolevoOf(vs) ==
    IF IsExc(FirstExc(vs)) THEN FirstExc(vs)
    ELSE Sub(Add(GTerm(vs[1]), GTerm(vs[2])), GTerm(vs[3]))

\* NoisyHeterodyneDetector.holevo_bound on the eigenvalues vs
NoisyHolevoOf(vs) ==
    IF IsExc(FirstExc(vs)) THEN FirstExc(vs)
    ELSE Sub(Sub(Add(GTerm(vs[1]), GTerm(vs[2])), GTerm(vs[3])), GTerm(vs[4]))

holevo_bound(det, V, W, Z, znp) ==
    IF det.kind = "ideal" THEN IdealHolevoOf(IdealSympl(V, W, Z, znp))
    ELSE NoisyHolevoOf(NoisySympl(det, V, W, Z, znp))


(***************************************************************************)
(* Complex floats: pairs <<re, im>> of floats.                             *)
(***************************************************************************)
CZero == <<Zero, Zero>>
CAdd(a, b) == <<Add(a[1], b[1]), Add(a[2], b[2])>>
CMul(a, b) == <<Sub(Mul(a[1], b[1]), Mul(a[2], b[2])), Add(Mul(a[1], b[2]), Mul(a[2], b[1]))>>
CScale(r, a) == <<Mul(r, a[1]), Mul(r, a[2])>>
CConj(a) == <<a[1], Neg(a[2])>>
CAbs2(a) == Add(Sq(a[1]), Sq(a[2]))

RECURSIVE SumFrom(_, _)
SumFrom(vs, i) == IF i > Len(vs) THEN Zero ELSE Add(vs[i], SumFrom(vs, i + 1))
\* sum of a sequence of floats
Sum(vs) == SumFrom(vs, 1)

RECURSIVE CSumFrom(_, _)
CSumFrom(zs, i) == IF i > Len(zs) THEN CZero ELSE CAdd(zs[i], CSumFrom(zs, i + 1))
\* sum of a sequence of complex floats
CSum(zs) == CSumFrom(zs, 1)

RECURSIVE PowV(_, _)
PowV(x, n) == IF n = 0 THEN One ELSE Mul(x, PowV(x, n - 1))

RECURSIVE comb(_, _)
comb(n, k) == IF k = 0 THEN 1 ELSE (comb(n, k - 1) * (n - k + 1)) \div k

(***************************************************************************)
(* Modulations (modulation/*.py).                                          *)
(*                                                                         *)
(* A modulation is a record; a constructor that raises gives a record      *)
(* whose field raised is the exception (Zero otherwise).                   *)
(*                                                                         *)
(* QAM.__init__ builds dim x dim matrices in the truncated Fock basis      *)
(* (tau, its matrix square root tau_half, a_tau = tau_half a pinvh(tau_half))*)
(* and reads three things off them, which is all the simulators use:       *)
(*   w            the leakage term,                                        *)
(*   a_tau_mean   <psi_k| a_tau |psi_k> for each constellation point,      *)
(*   tau_trace    Re trace(tau_half a tau_half a^T).                       *)
(* For dim = 1 the annihilation matrix a is the 1 x 1 zero matrix and all  *)
(* three are exactly 0.  For dim > 1 the linear algebra is not computed:   *)
(* its outcome is a parameter fock = [w, kappa] of the constructor, with   *)
(* a_tau_mean[k] = kappa * alpha_k and tau_trace = kappa * va / 2.         *)
(***************************************************************************)
NoFock == [w |-> Zero, kappa |-> Zero]

\* a Gaussian modulation that stores the variance V = va + 1 of the state
GaussianModulationStoringV(va) ==
    [kind |-> "gaussian", va |-> Add(va, One), w |-> Zero, raised |-> Zero,
     dim |-> 0, size |-> 0, q |-> Zero, constellation |-> <<>>, distribution |-> <<>>,
     a_tau_mean |-> <<>>, tau_trace |-> Zero]

GaussianModulation(va) ==
    [kind |-> "gaussian", va |-> va, w |-> Zero, raised |-> Zero,
     dim |-> 0, size |-> 0, q |-> Zero, constellation |-> <<>>, distribution |-> <<>>,
     a_tau_mean |-> <<>>, tau_trace |-> Zero]

\* range(-size + 1, size, 2)
Quadratures(size) == [i \in 1..size |-> -size + 1 + 2 * (i - 1)]

\* [x + 1j * y for x, y in product(quadratures, quadratures)]
Lattice(size) ==
    LET quadratures == Quadratures(size)
    IN  Array([k \in 1..(size * size) |->
            <<IntV(quadratures[((k - 1) \div size) + 1]),
              IntV(quadratures[((k - 1) % size) + 1])>>])

\* abs(constellation) ** 2 on the integer lattice
LatticeAbs2(size) ==
    LET lattice == Lattice(size)
    IN  Array([k \in 1..(size * size) |-> CAbs2(lattice[k])])

\* QAM.__init__ (qam.py 64-103), given the constellation and distribution the
\* subclass has set
QAMInit(kind, dim, size, va, constellation, distribution, fock) ==
    LET f == IF dim = 1 THEN NoFock ELSE fock
    IN  [kind |-> kind, va |-> va, w |-> f.w, raised |-> Zero,
         dim |-> dim, size |-> size, q |-> Zero,
         constellation |-> constellation, distribution |-> distribution,
         a_tau_mean |-> Array([k \in 1..Len(constellation) |-> CScale(f.kappa, constellation[k])]),
         tau_trace |-> Mul(f.kappa, Mul(va, Half))]

Raised(kind, exc) ==
    [kind |-> kind, va |-> Zero, w |-> Zero, raised |-> exc,
     dim |-> 0, size |-> 0, q |-> Zero, constellation |-> <<>>, distribution |-> <<>>,
     a_tau_mean |-> <<>>, tau_trace |-> Zero]

\* binomial_qam.py 51-56
BinomialDistribution(size) ==
    Array([k \in 1..(size * size) |->
        Mul(<<1, 2^(2 * (size - 1))>>,
            IntV(comb(size - 1, (k - 1) \div size) * comb(size - 1, (k - 1) % size)))])

\* the scale computed as numpy computes it, a division by zero giving inf
BinomialScaleNumpy(size, va) == NpSqrt(NpDiv(va, IntV(4 * (size - 1))))

\* a scale that gives each quadrature the whole of va
BinomialScaleWhole(size, va) == MathSqrt(PyDiv(va, IntV(2 * (size - 1))))

\* binomial_qam.py 58: sqrt(va / (4 * (size - 1)))
BinomialScale(size, va) == MathSqrt(PyDiv(va, IntV(4 * (size - 1))))

\* BinomialQAM.__init__
BinomialQAM(dim, size, va, fock) ==
    LET scale == BinomialScale(size, va)
        lattice == Lattice(size)
    IN  IF IsExc(scale) THEN Raised("binomial_qam", scale)
        ELSE QAMInit("binomial_qam", dim, size, va,
                     Array([k \in 1..(size * size) |-> CScale(scale, lattice[k])]),
                     BinomialDistribution(size), fock)

\* np.exp(-nu * abs(constellation) ** 2): nu enters through q = exp(-nu), and
\* abs(constellation) ** 2 is an integer on the lattice, so the weight is q^|c|^2
GaussianWeights(size, q) ==
    LET abs2 == LatticeAbs2(size)
    IN  Array([k \in 1..(size * size) |-> PowV(q, abs2[k][1])])

\* the weights left as they are, total_weight forgotten
GaussianDistributionUnnormalised(size, q) == GaussianWeights(size, q)

\* gaussian_qam.py 53-56
GaussianDistribution(size, q) ==
    LET weights == GaussianWeights(size, q)
        total_weight == Sum(weights)
    IN  Array([k \in 1..(size * size) |-> NpDiv(weights[k], total_weight)])

\* np.dot(np.abs(constellation) ** 2, self.distribution)
LatticeSecondMoment(size, distribution) ==
    LET abs2 == LatticeAbs2(size)
    IN  Sum([k \in 1..(size * size) |-> Mul(abs2[k], distribution[k])])

\* gaussian_qam.py 58-60: np.sqrt(va / (2 * np.dot(...)))
GaussianScale(size, va, distribution) ==
    NpSqrt(NpDiv(va, Mul(Two, LatticeSecondMoment(size, distribution))))

\* GaussianQAM.__init__
GaussianQAM(dim, size, va, q, fock) ==
    LET distribution == GaussianDistribution(size, q)
        scale == GaussianScale(size, va, distribution)
        lattice == Lattice(size)
    IN  [QAMInit("gaussian_qam", dim, size, va,
                 Array([k \in 1..(size * size) |-> CScale(scale, lattice[k])]),
                 distribution, fock) EXCEPT !.q = q]

IsQAM(m) == m.kind \in {"binomial_qam", "gaussian_qam"}

(***************************************************************************)
(* The process-wide random generator (numpy's global RandomState, which    *)
(* scipy's rv_discrete.rvs and np.random.normal both draw from).  Its      *)
(* state is a position on a cyclic tape; the k-th draw after position p    *)
(* reads the tape at p + k - 1, as a uniform variate on [0, 1) or as a     *)
(* standard normal variate, and a call that draws n values advances the    *)
(* position by n.                                                          *)
(***************************************************************************)
UniformTape == << <<1, 8>>, <<7, 8>>, <<3, 8>>, <<5, 8>> >>
NormalTape == << <<-1, 1>>, <<1, 1>>, <<-1, 2>>, <<1, 2>> >>
Period == Len(UniformTape)

Uniform(pos) == UniformTape[(pos % Period) + 1]
StandardNormal(pos) == NormalTape[(pos % Period) + 1]
Advance(pos, n) == (pos + n) % Period
\* the tape positions n draws from position pos read
Positions(pos, n) == [k \in 1..n |-> (pos + k - 1) % Period]

\* np.random.normal(0, scale, n) drawn from position pos
RandomNormal(scale, n, pos) == Array([k \in 1..n |-> Mul(scale, StandardNormal(pos + k - 1))])

\* the cumulative sums of a distribution
RECURSIVE CumSum(_, _)
CumSum(dist, k) == IF k = 0 THEN Zero ELSE Add(CumSum(dist, k - 1), dist[k])

\* rv_discrete.ppf: the first outcome (0-based) whose cumulative probability reaches u
RECURSIVE PpfFrom(_, _, _)
PpfFrom(dist, u, k) ==
    IF k >= Len(dist) THEN Len(dist) - 1
    ELSE IF Le(u, CumSum(dist, k)) THEN k - 1
    ELSE PpfFrom(dist, u, k + 1)

\* custm.rvs(size = n) drawn from position pos
Rvs(dist, n, pos) == Array([j \in 1..n |-> PpfFrom(dist, Uniform(pos + j - 1), 1)])

\* np.sort of a sequence of integers
RECURSIVE Insert(_, _)
Insert(x, sorted) ==
    IF sorted = <<>> THEN <<x>>
    ELSE IF x <= Head(sorted) THEN <<x>> \o sorted
    ELSE <<Head(sorted)>> \o Insert(x, Tail(sorted))

\* the draws left in the order drawn
Unsorted(xs) == xs

RECURSIVE NpSort(_)
NpSort(xs) == IF xs = <<>> THEN <<>> ELSE Insert(Head(xs), NpSort(Tail(xs)))

(***************************************************************************)
(* The Gaussian channel (channel.py).  A channel is a record [t, xi].      *)
(***************************************************************************)
GaussianChannel(t, xi) == [t |-> t, xi |-> xi]

\* the standard deviation of both noise draws (channel.py 70 and 73)
NoiseScale(ch, det) ==
    Mul(Half, NpSqrt(Add(Add(One, det.vel), PyDiv(Mul(Mul(det.eta, ch.t), ch.xi), Two))))

\* sample_output drawing the imaginary noise before the real noise
SampleOutputImaginaryFirst(ch, symbols, det, pos) ==
    LET num_symbols == Len(symbols)
        noise_i == RandomNormal(NoiseScale(ch, det), num_symbols, pos)
        noise_r == RandomNormal(NoiseScale(ch, det), num_symbols, pos + num_symbols)
        gain == NpSqrt(Mul(Mul(ch.t, det.eta), Half))
    IN  Array([k \in 1..num_symbols |-> CAdd(CScale(gain, symbols[k]), <<noise_r[k], noise_i[k]>>)])

\* sample_output with one draw serving both parts of a symbol's noise
SampleOutputSharedDraw(ch, symbols, det, pos) ==
    LET num_symbols == Len(symbols)
        noise_r == RandomNormal(NoiseScale(ch, det), num_symbols, pos)
        gain == NpSqrt(Mul(Mul(ch.t, det.eta), Half))
    IN  Array([k \in 1..num_symbols |-> CAdd(CScale(gain, symbols[k]), <<noise_r[k], noise_r[k]>>)])

\* GaussianChannel.sample_output, the generator being at position pos
sample_output(ch, symbols, det, pos) ==
    LET num_symbols == Len(symbols)
        noise_r == RandomNormal(NoiseScale(ch, det), num_symbols, pos)
        noise_i == RandomNormal(NoiseScale(ch, det), num_symbols, pos + num_symbols)
        gain == NpSqrt(Mul(Mul(ch.t, det.eta), Half))
    IN  Array([k \in 1..num_symbols |-> CAdd(CScale(gain, symbols[k]), <<noise_r[k], noise_i[k]>>)])

(***************************************************************************)
(* Simulators (simulator/*.py).  A simulator is a record holding the       *)
(* identities (heap indices) of its modulation, channel and detector, beta,*)
(* the scalars c1, c2, n_B fixed by its constructor and, for the           *)
(* finite-size variant, the strings drawn by the constructor.  The         *)
(* operators below take the collaborator objects themselves.               *)
(***************************************************************************)
SimulatorRecord(kind, refs, beta, c1, c2, n_B, n_symbols, alice_string, bob_string, betas) ==
    [kind |-> kind, modulation |-> refs[1], channel |-> refs[2], detector |-> refs[3],
     beta |-> beta, c1 |-> c1, c2 |-> c2, n_B |-> n_B, n_symbols |-> n_symbols,
     alice_string |-> alice_string, bob_string |-> bob_string, betas |-> betas,
     raised |-> FirstExc(<<n_B, c1, c2>>)]

RaisedSimulator(kind, refs, beta, exc) ==
    [kind |-> kind, modulation |-> refs[1], channel |-> refs[2], detector |-> refs[3],
     beta |-> beta, c1 |-> Zero, c2 |-> Zero, n_B |-> Zero, n_symbols |-> 0,
     alice_string |-> <<>>, bob_string |-> <<>>, betas |-> <<>>, raised |-> exc]

\* gaussian_channel_asymptotic_calculator.py 62-66
GaussianChannelNB(mod, ch) == PyDiv(Mul(ch.t, Add(mod.va, ch.xi)), Two)
GaussianChannelC1(mod, ch) == Mul(MathSqrt(ch.t), mod.tau_trace)
GaussianChannelC2(mod, ch) == PyDiv(Mul(MathSqrt(ch.t), mod.va), Two)

\* GaussianChannelAsymptoticCalculator.__init__: reading tau_half off a modulation
\* that is no QAM raises
GaussianChannelAsymptoticCalculator(mod, ch, det, beta, refs) ==
    IF ~IsQAM(mod) THEN RaisedSimulator("gaussian_channel", refs, beta, AttributeError)
    ELSE SimulatorRecord("gaussian_channel", refs, beta,
                         GaussianChannelC1(mod, ch), GaussianChannelC2(mod, ch),
                         GaussianChannelNB(mod, ch), 0, <<>>, <<>>, <<>>)

\* GaussianChannelAsymptoticCalculator.snr
GaussianChannelSnr(mod, ch, det) ==
    PyDiv(Mul(Mul(ch.t, mod.va), det.eta),
          Add(Add(Two, Mul(Two, det.vel)), Mul(Mul(det.eta, ch.t), ch.xi)))

\* gaussian_modulation_asymptotic_calculator.py 58-62
GaussianModulationNB(mod, ch) == PyDiv(Mul(ch.t, Add(mod.va, ch.xi)), Two)
GaussianModulationC1(mod, ch) ==
    MathSqrt(Mul(PyDiv(Mul(ch.t, mod.va), Two), Add(PyDiv(mod.va, Two), One)))
\* c2 with t where sqrt(t) belongs
GaussianModulationC2NoRoot(mod, ch) == PyDiv(Mul(ch.t, mod.va), Two)
GaussianModulationC2(mod, ch) == PyDiv(Mul(MathSqrt(ch.t), mod.va), Two)

\* GaussianModulationAsymptoticCalculator.__init__
GaussianModulationAsymptoticCalculator(mod, ch, det, beta, refs) ==
    SimulatorRecord("gaussian_modulation", refs, beta,
                    GaussianModulationC1(mod, ch), GaussianModulationC2(mod, ch),
                    GaussianModulationNB(mod, ch), 0, <<>>, <<>>, <<>>)

\* GaussianModulationAsymptoticCalculator.snr
GaussianModulationSnr(mod, ch, det) ==
    PyDiv(Mul(Mul(ch.t, mod.va), det.eta),
          Add(Add(Two, Mul(Two, det.vel)), Mul(Mul(det.eta, ch.t), ch.xi)))

\* the keys of Counter(raw_data) in iteration order: first appearances, left to right
RECURSIVE CounterKeys(_)
CounterKeys(xs) ==
    IF xs = <<>> THEN <<>>
    ELSE <<Head(xs)>> \o CounterKeys(SelectSeq(Tail(xs), LAMBDA y : y # Head(xs)))

\* Counter(raw_data)[x]
CounterGet(xs, x) == Len(SelectSeq(xs, LAMBDA y : y = x))

\* np.mean of a sequence of complex floats
CMean(zs) == <<NpDiv(CSum(zs)[1], IntV(Len(zs))), NpDiv(CSum(zs)[2], IntV(Len(zs)))>>

\* np.mean(np.abs(zs) ** 2)
MeanAbs2(zs) == NpDiv(Sum([k \in 1..Len(zs) |-> CAbs2(zs[k])]), IntV(Len(zs)))

\* the loop run over every index of the constellation from x on, drawn or not
RECURSIVE RangeLoopFrom(_, _, _, _, _)
RangeLoopFrom(x, raw_data, bob_string, distribution, st) ==
    IF x >= Len(distribution) THEN st
    ELSE RangeLoopFrom(x + 1, raw_data, bob_string, distribution,
             [i |-> st.i + CounterGet(raw_data, x),
              betas |-> [st.betas EXCEPT ![x + 1] =
                            CMean(SubSeq(bob_string, st.i + 1, st.i + CounterGet(raw_data, x)))],
              n_B |-> Add(st.n_B,
                          Mul(distribution[x + 1],
                              MeanAbs2(SubSeq(bob_string, st.i + 1,
                                              st.i + CounterGet(raw_data, x)))))])

\* the loop taken over range(size ** 2) instead of the Counter's keys
GroupLoopOverRange(keys, raw_data, bob_string, distribution, st) ==
    RangeLoopFrom(0, raw_data, bob_string, distribution, st)

\* the loop of finite_size_simulator.py 102-109 over the keys still to visit;
\* st = [i, betas, n_B] is the loop's state
RECURSIVE GroupLoop(_, _, _, _, _)
GroupLoop(keys, raw_data, bob_string, distribution, st) ==
    IF keys = <<>> THEN st
    ELSE LET x == Head(keys)
             freq == CounterGet(raw_data, x)
             slice == SubSeq(bob_string, st.i + 1, st.i + freq)
         IN  GroupLoop(Tail(keys), raw_data, bob_string, distribution,
                       [i |-> st.i + freq,
                        betas |-> [st.betas EXCEPT ![x + 1] = CMean(slice)],
                        n_B |-> Add(st.n_B, Mul(distribution[x + 1], MeanAbs2(slice)))])

\* finite_size_simulator.py 111-112
BiasCorrection(det) == PyDiv(Add(One, det.vel), det.eta)

\* finite_size_simulator.py 117-135: c1 and c2 before .real is taken
FiniteC1(mod, betas) ==
    CSum([k \in 1..Len(mod.distribution) |->
            CMul(CScale(mod.distribution[k], CConj(mod.a_tau_mean[k])), betas[k])])

FiniteC2(mod, betas) ==
    CSum([k \in 1..Len(mod.distribution) |->
            CMul(CScale(mod.distribution[k], CConj(mod.constellation[k])), betas[k])])

\* FiniteSizeSimulator.__init__, the generator being at position pos; reading
\* size off a modulation that is no QAM raises before anything is drawn
FiniteSizeSimulator(mod, ch, det, n_symbols, beta, pos, refs) ==
    IF ~IsQAM(mod) THEN RaisedSimulator("finite_size", refs, beta, AttributeError)
    ELSE LET rvs == Rvs(mod.distribution, n_symbols, pos)
             raw_data == NpSort(rvs)
             alice_string == Array([j \in 1..n_symbols |-> mod.constellation[raw_data[j] + 1]])
             measured_quadratures == sample_output(ch, alice_string, det, pos + n_symbols)
             rescale == NpSqrt(PyDiv(Two, det.eta))
             bob_string == Array([j \in 1..n_symbols |-> CScale(rescale, measured_quadratures[j])])
             loop == GroupLoop(CounterKeys(raw_data), raw_data, bob_string, mod.distribution,
                               [i |-> 0,
                                betas |-> [k \in 1..(mod.size * mod.size) |-> CZero],
                                n_B |-> Zero])
             n_B == Sub(loop.n_B, BiasCorrection(det))
         IN  SimulatorRecord("finite_size", refs, beta,
                             FiniteC1(mod, loop.betas)[1], FiniteC2(mod, loop.betas)[1],
                             n_B, n_symbols, alice_string, bob_string, loop.betas)

\* the draws of a constructor that samples before it looks at the modulation
FiniteDrawsUnchecked(mod, n_symbols) == 3 * n_symbols

\* how many generator draws FiniteSizeSimulator.__init__ makes: n_symbols in rvs,
\* then n_symbols for noise_r and n_symbols for noise_i in sample_output
FiniteDraws(mod, n_symbols) == IF IsQAM(mod) THEN 3 * n_symbols ELSE 0

\* FiniteSizeSimulator.snr
FiniteSnr(sim) ==
    LET alice == sim.alice_string
        bob == sim.bob_string
        n == Len(alice)
        rho_hat == NpDiv(Add(Sum([j \in 1..n |-> Mul(alice[j][1], bob[j][1])]),
                             Sum([j \in 1..n |-> Mul(alice[j][2], bob[j][2])])),
                         Sum([j \in 1..n |-> CAbs2(alice[j])]))
    IN  NpDiv(One,
              Sub(NpDiv(Sum([j \in 1..n |-> CAbs2(bob[j])]),
                        Sum([j \in 1..n |-> Mul(Sq(rho_hat), CAbs2(alice[j]))])),
                  One))

\* the variant's own snr()
snr(sim, mod, ch, det) ==
    IF sim.kind = "finite_size" THEN FiniteSnr(sim)
    ELSE IF sim.kind = "gaussian_channel" THEN GaussianChannelSnr(mod, ch, det)
    ELSE GaussianModulationSnr(mod, ch, det)

\* whether the simulator's c2 is a numpy float64 (the finite-size variant takes
\* it from a numpy complex) rather than a Python float
IsNumpy(sim) == sim.kind = "finite_size"

\* simulator.py 100
Racine(sim, mod) ==
    Mul(mod.w, Sub(sim.n_B, Div(IsNumpy(sim), Mul(Two, Sq(sim.c2)), mod.va)))

\* covariance without the factor 2 of z_star's square root
CovarianceSingleRoot(sim, mod) ==
    <<Add(mod.va, One),
      Add(Mul(Two, sim.n_B), One),
      Sub(Mul(Two, sim.c1), NpSqrt(Racine(sim, mod)))>>

\* Simulator.covariance: <<v, w, z_star>>
covariance(sim, mod) ==
    <<Add(mod.va, One),
      Add(Mul(Two, sim.n_B), One),
      Sub(Mul(Two, sim.c1), Mul(Two, NpSqrt(Racine(sim, mod))))>>

\* the arguments Simulator.skr hands to holevo_bound (simulator.py 114-115)
HolevoArguments(sim, mod) == covariance(sim, mod)

\* detector.holevo_bound(v, w, z) of simulator.py 115, on the triple vwz that
\* covariance() returned unless it raised
HolevoBoundOn(det, vwz) ==
    IF IsExc(FirstExc(vwz)) THEN FirstExc(vwz)
    ELSE holevo_bound(det, vwz[1], vwz[2], vwz[3], TRUE)

\* simulator.py 116, unless holevo_bound raised
SkrOn(beta, holevo, snrOf) ==
    IF IsExc(holevo) THEN holevo
    ELSE Sub(Mul(beta, MathLog2(Add(One, snrOf))), holevo)

\* skr handing holevo_bound the triple with V and W exchanged
SkrExchangingVW(sim, mod, ch, det) ==
    SkrOn(sim.beta,
          HolevoBoundOn(det, <<Add(Mul(Two, sim.n_B), One), Add(mod.va, One),
                               HolevoArguments(sim, mod)[3]>>),
          snr(sim, mod, ch, det))

\* Simulator.skr; z is a numpy float64 whatever the variant, np.sqrt having made it
skr(sim, mod, ch, det) ==
    SkrOn(sim.beta, HolevoBoundOn(det, HolevoArguments(sim, mod)), snr(sim, mod, ch, det))


(***************************************************************************)
(* The program's state: the heap of objects a caller has built, the        *)
(* generator's position, and what the last calls gave back.                *)
(***************************************************************************)
VARIABLES
    modulations,    \* the Modulation objects, by identity (index)
    channels,       \* the GaussianChannel objects
    detectors,      \* the Detector objects
    simulators,     \* the Simulator objects
    drawn,          \* per simulator: the tape positions its constructor read, in order
    rng,            \* the position of the process-wide generator
    ret,            \* the last call (snr, covariance, skr, sympl, holevo_bound, sample_output) and its result
    err             \* the exception the last constructor raised, Zero if it raised none

vars == <<modulations, channels, detectors, simulators, drawn, rng, ret, err>>

NoReturn == [op |-> "none", sim |-> 0, value |-> <<>>, args |-> <<>>, detector |-> 0]

\* how many simulators a caller builds
MaxSims == 2
\* how many modulations a caller builds
MaxMods == 1

\* the inputs callers pass
Betas == {<<19, 20>>}
NSymbols == {2}
Seeds == {0}
Dims == {1, 2}
Sizes == {1, 2, 3}
Vas == {One, Two, IntV(4), <<9, 2>>, IntV(5), IntV(8)}
Qs == {Half, <<3, 4>>}
Focks == {[w |-> <<1, 4>>, kappa |-> <<6, 5>>], [w |-> Zero, kappa |-> One]}

TheModulations ==
    <<BinomialQAM(2, 2, IntV(4), [w |-> <<1, 4>>, kappa |-> <<6, 5>>]),
      GaussianModulation(IntV(4))>>
TheChannels == <<GaussianChannel(<<1, 4>>, Half), GaussianChannel(One, Zero)>>
TheDetectors == <<IdealHeterodyneDetector, NoisyHeterodyneDetector(Half, <<1, 8>>)>>

\* a caller has built its modulations, channels and detectors
Init ==
    /\ modulations = TheModulations
    /\ channels = TheChannels
    /\ detectors = TheDetectors
    /\ simulators = <<>>
    /\ drawn = <<>>
    /\ rng = 0
    /\ ret = NoReturn
    /\ err = Zero

\* np.random.seed(p)
Seed(p) ==
    /\ rng' = p
    /\ UNCHANGED <<modulations, channels, detectors, simulators, drawn, ret, err>>

\* the outcome of a simulator constructor that made n draws: the object joins
\* the heap unless the constructor raised
Constructed(sim, n) ==
    /\ rng' = Advance(rng, n)
    /\ err' = sim.raised
    /\ IF IsExc(sim.raised)
       THEN UNCHANGED <<simulators, drawn>>
       ELSE /\ simulators' = Append(simulators, sim)
            /\ drawn' = Append(drawn, Positions(rng, n))
    /\ UNCHANGED <<modulations, channels, detectors, ret>>

\* a constructor that applies the channel's gain to the modulation's own
\* constellation array
NewFiniteSizeSimulatorScalingInPlace(m, c, d, n_symbols, beta) ==
    /\ Len(simulators) < MaxSims
    /\ IsQAM(modulations[m])
    /\ LET sim == FiniteSizeSimulator(modulations[m], channels[c], detectors[d],
                                      n_symbols, beta, rng, <<m, c, d>>)
           gain == NpSqrt(Mul(Mul(channels[c].t, detectors[d].eta), Half))
       IN  /\ simulators' = Append(simulators, sim)
           /\ drawn' = Append(drawn, Positions(rng, 3 * n_symbols))
           /\ rng' = Advance(rng, 3 * n_symbols)
           /\ err' = Zero
           /\ modulations' =
                  [modulations EXCEPT ![m].constellation =
                      [k \in 1..Len(@) |-> CScale(gain, @[k])]]
           /\ UNCHANGED <<channels, detectors, ret>>

\* FiniteSizeSimulator(modulations[m], channels[c], detectors[d], n_symbols, beta)
NewFiniteSizeSimulator(m, c, d, n_symbols, beta) ==
    /\ Len(simulators) < MaxSims
    /\ Constructed(FiniteSizeSimulator(modulations[m], channels[c], detectors[d],
                                       n_symbols, beta, rng, <<m, c, d>>),
                   FiniteDraws(modulations[m], n_symbols))

\* GaussianChannelAsymptoticCalculator(modulations[m], channels[c], detectors[d], beta)
NewGaussianChannelAsymptoticCalculator(m, c, d, beta) ==
    /\ Len(simulators) < MaxSims
    /\ Constructed(GaussianChannelAsymptoticCalculator(modulations[m], channels[c],
                                                       detectors[d], beta, <<m, c, d>>), 0)

\* GaussianModulationAsymptoticCalculator(modulations[m], channels[c], detectors[d], beta)
NewGaussianModulationAsymptoticCalculator(m, c, d, beta) ==
    /\ Len(simulators) < MaxSims
    /\ Constructed(GaussianModulationAsymptoticCalculator(modulations[m], channels[c],
                                                          detectors[d], beta, <<m, c, d>>), 0)

ModulationOf(s) == modulations[simulators[s].modulation]
ChannelOf(s) == channels[simulators[s].channel]
DetectorOf(s) == detectors[simulators[s].detector]

\* snr() measuring the channel again
CallSnrResampling(s) ==
    LET sim == simulators[s]
        again == IF sim.kind = "finite_size"
                 THEN [sim EXCEPT !.bob_string =
                          sample_output(ChannelOf(s), sim.alice_string, DetectorOf(s), rng)]
                 ELSE sim
    IN  /\ ret' = [op |-> "snr", sim |-> s,
                   value |-> <<snr(again, ModulationOf(s), ChannelOf(s), DetectorOf(s))>>,
                   args |-> <<>>, detector |-> 0]
        /\ simulators' = [simulators EXCEPT ![s] = again]
        /\ rng' = Advance(rng, 2 * Len(sim.alice_string))
        /\ UNCHANGED <<modulations, channels, detectors, drawn, err>>

\* simulators[s].snr()
CallSnr(s) ==
    /\ ret' = [op |-> "snr", sim |-> s,
               value |-> <<snr(simulators[s], ModulationOf(s), ChannelOf(s), DetectorOf(s))>>,
               args |-> <<>>, detector |-> 0]
    /\ UNCHANGED <<modulations, channels, detectors, simulators, drawn, rng, err>>

\* simulators[s].covariance()
CallCovariance(s) ==
    /\ ret' = [op |-> "covariance", sim |-> s,
               value |-> covariance(simulators[s], ModulationOf(s)),
               args |-> <<>>, detector |-> 0]
    /\ UNCHANGED <<modulations, channels, detectors, simulators, drawn, rng, err>>

\* simulators[s].skr(); args and detector tell which triple went to which
\* detector's holevo_bound
CallSkr(s) ==
    /\ ret' = [op |-> "skr", sim |-> s,
               value |-> <<skr(simulators[s], ModulationOf(s), ChannelOf(s), DetectorOf(s))>>,
               args |-> HolevoArguments(simulators[s], ModulationOf(s)),
               detector |-> simulators[s].detector]
    /\ UNCHANGED <<modulations, channels, detectors, simulators, drawn, rng, err>>

Next ==
    \/ \E p \in Seeds : Seed(p)
    \/ \E m \in 1..Len(modulations), c \in 1..Len(channels), d \in 1..Len(detectors),
          n_symbols \in NSymbols, beta \in Betas :
            NewFiniteSizeSimulator(m, c, d, n_symbols, beta)
    \/ \E m \in 1..Len(modulations), c \in 1..Len(channels), d \in 1..Len(detectors),
          beta \in Betas :
            NewGaussianChannelAsymptoticCalculator(m, c, d, beta)
    \/ \E m \in 1..Len(modulations), c \in 1..Len(channels), d \in 1..Len(detectors),
          beta \in Betas :
            NewGaussianModulationAsymptoticCalculator(m, c, d, beta)
    \/ \E s \in 1..Len(simulators) : CallSnr(s)
    \/ \E s \in 1..Len(simulators) : CallCovariance(s)
    \/ \E s \in 1..Len(simulators) : CallSkr(s)

Spec == Init /\ [][Next]_vars

(***************************************************************************)
(* Properties of the simulators.                                           *)
(***************************************************************************)
Queries == {"snr", "covariance", "skr"}

\* the snr() of each variant, by name
FiniteSizeSnrOf(s) == FiniteSnr(simulators[s])
AsymptoticSnrOf(s) ==
    IF simulators[s].kind = "gaussian_channel"
    THEN GaussianChannelSnr(ModulationOf(s), ChannelOf(s), DetectorOf(s))
    ELSE GaussianModulationSnr(ModulationOf(s), ChannelOf(s), DetectorOf(s))
OwnSnrOf(s) == IF simulators[s].kind = "finite_size" THEN FiniteSizeSnrOf(s) ELSE AsymptoticSnrOf(s)

\* C1: whatever the variant, skr() hands the triple covariance() returns, as it
\* is, to the holevo_bound of the simulator's own detector, and returns
\* beta * log2(1 + snr()) minus that bound, snr() being the variant's own.
C1_SkrComposition ==
    ret.op = "skr" =>
        LET s == ret.sim
            cov == covariance(simulators[s], ModulationOf(s))
            holevo == holevo_bound(detectors[ret.detector],
                                   ret.args[1], ret.args[2], ret.args[3], TRUE)
            rate == Mul(simulators[s].beta, MathLog2(Add(One, OwnSnrOf(s))))
        IN  /\ ret.args = cov
            /\ ret.detector = simulators[s].detector
            /\ ret.value = <<IF IsExc(FirstExc(cov)) THEN FirstExc(cov)
                             ELSE IF IsExc(holevo) THEN holevo
                             ELSE Sub(rate, holevo)>>

\* skr() has returned a number on a finite-size simulator
C1_Witness ==
    /\ ret.op = "skr"
    /\ simulators[ret.sim].kind = "finite_size"
    /\ IsFin(ret.value[1])

\* C2: whatever the variant, covariance() returns V = va + 1, W = 2 n_B + 1 and
\* Z_star = 2 c1 - 2 sqrt(w (n_B - 2 c2^2 / va)), with the modulation's va and w
\* and the c1, c2, n_B the constructor stored.
C2_CovarianceFormula ==
    ret.op = "covariance" =>
        LET sim == simulators[ret.sim]
            mod == ModulationOf(ret.sim)
            radicand == Mul(mod.w, Sub(sim.n_B,
                            Div(sim.kind = "finite_size", Mul(Two, Sq(sim.c2)), mod.va)))
        IN  /\ Len(ret.value) = 3
            /\ ret.value[1] = Add(mod.va, One)
            /\ ret.value[2] = Add(Mul(Two, sim.n_B), One)
            /\ ret.value[3] = Sub(Mul(Two, sim.c1), Mul(Two, NpSqrt(radicand)))

\* covariance() has returned a finite triple whose square root is not zero
C2_Witness ==
    /\ ret.op = "covariance"
    /\ IsFin(ret.value[3])
    /\ ret.value[3] # Mul(Two, simulators[ret.sim].c1)
    /\ ModulationOf(ret.sim).w # Zero

\* a query of simulator s
Query(s) == CallSnr(s) \/ CallCovariance(s) \/ CallSkr(s)

\* C6: a query (snr, covariance, skr) leaves every simulator as its constructor
\* made it (c1, c2, n_B, beta, n_symbols, alice_string, bob_string, betas),
\* draws nothing from the generator, and returns what the same query returned
\* on the same simulator the time before.
C6_QueriesLeaveSimulators ==
    [][\A s \in 1..Len(simulators) :
            Query(s) =>
                /\ simulators' = simulators
                /\ rng' = rng
                /\ drawn' = drawn
                /\ (ret.op = ret'.op /\ ret.sim = ret'.sim => ret'.value = ret.value)]_vars

\* a finite-size simulator has been queried with another simulator built since
C6_Witness ==
    /\ ret.op \in Queries
    /\ ret.sim = 1
    /\ Len(simulators) = 2
    /\ simulators[1].kind = "finite_size"
    /\ simulators[2].kind = "finite_size"

\* C7: the constructors and queries of the simulators leave the modulations,
\* channels and detectors they were given as they were, so that the simulators
\* sharing one of them all read the same values off it.
C7_CollaboratorsUntouched ==
    /\ modulations = TheModulations
    /\ channels = TheChannels
    /\ detectors = TheDetectors

\* two simulators of different variants over one modulation and one detector,
\* the first queried after the second was built
C7_Witness ==
    /\ Len(simulators) = 2
    /\ simulators[1].modulation = simulators[2].modulation
    /\ simulators[1].detector = simulators[2].detector
    /\ simulators[1].channel # simulators[2].channel
    /\ simulators[1].kind = "finite_size"
    /\ simulators[2].kind = "gaussian_channel"
    /\ ret.op = "skr"
    /\ ret.sim = 1

FiniteSimulators == {s \in 1..Len(simulators) : simulators[s].kind = "finite_size"}

SameInputs(i, j) ==
    /\ simulators[i].modulation = simulators[j].modulation
    /\ simulators[i].channel = simulators[j].channel
    /\ simulators[i].detector = simulators[j].detector
    /\ simulators[i].n_symbols = simulators[j].n_symbols
    /\ simulators[i].beta = simulators[j].beta

SkrOf(s) == skr(simulators[s], ModulationOf(s), ChannelOf(s), DetectorOf(s))

\* what the draws at the positions ps give a constructor of simulator s: the
\* first n_symbols as sorted categorical symbols, the next n_symbols as the
\* real parts of the noise and the last n_symbols as its imaginary parts
AliceFromDraws(s, ps) ==
    LET n == simulators[s].n_symbols
        mod == ModulationOf(s)
        indices == NpSort([j \in 1..n |-> PpfFrom(mod.distribution, UniformTape[ps[j] + 1], 1)])
    IN  [j \in 1..n |-> mod.constellation[indices[j] + 1]]

BobFromDraws(s, ps) ==
    LET n == simulators[s].n_symbols
        ch == ChannelOf(s)
        det == DetectorOf(s)
        alice == AliceFromDraws(s, ps)
        gain == NpSqrt(Mul(Mul(ch.t, det.eta), Half))
        rescale == NpSqrt(PyDiv(Two, det.eta))
    IN  [j \in 1..n |->
            CScale(rescale,
                   CAdd(CScale(gain, alice[j]),
                        <<Mul(NoiseScale(ch, det), NormalTape[ps[n + j] + 1]),
                          Mul(NoiseScale(ch, det), NormalTape[ps[2 * n + j] + 1])>>))]

\* C8: finite-size simulators built from the same inputs with the generator in
\* the same state have the same alice_string, bob_string and skr(); and the
\* generator is all a constructor draws from: n_symbols categorical draws, then
\* the real parts of the channel's noise, then its imaginary parts.
C8_Reproducible ==
    /\ \A i, j \in FiniteSimulators :
            SameInputs(i, j) /\ drawn[i] = drawn[j] =>
                /\ simulators[i].alice_string = simulators[j].alice_string
                /\ simulators[i].bob_string = simulators[j].bob_string
                /\ SkrOf(i) = SkrOf(j)
    /\ \A s \in FiniteSimulators :
            /\ Len(drawn[s]) = 3 * simulators[s].n_symbols
            /\ \A k \in 1..Len(drawn[s]) : drawn[s][k] = (drawn[s][1] + k - 1) % Period
            /\ simulators[s].alice_string = AliceFromDraws(s, drawn[s])
            /\ simulators[s].bob_string = BobFromDraws(s, drawn[s])

\* two finite-size simulators built from the same inputs, the generator seeded
\* alike before each
C8_Witness ==
    /\ Len(simulators) = 2
    /\ FiniteSimulators = {1, 2}
    /\ SameInputs(1, 2)
    /\ drawn[1] = drawn[2]
    /\ IsFin(SkrOf(1))

AsymptoticSimulators == {s \in 1..Len(simulators) : simulators[s].kind # "finite_size"}

SameSetting(i, j) ==
    /\ ChannelOf(i).t = ChannelOf(j).t
    /\ ChannelOf(i).xi = ChannelOf(j).xi
    /\ ModulationOf(i).va = ModulationOf(j).va
    /\ DetectorOf(i).eta = DetectorOf(j).eta
    /\ DetectorOf(i).vel = DetectorOf(j).vel

\* C9: each asymptotic calculator holds n_B = t (va + xi) / 2 and
\* c2 = sqrt(t) va / 2, and its snr() is t va eta / (2 + 2 vel + eta t xi); a
\* GaussianChannelAsymptoticCalculator and a
\* GaussianModulationAsymptoticCalculator of equal (t, xi, va, eta, vel) agree
\* on n_B, c2 and snr(), their c1 being sqrt(t) Re trace(tau_half a tau_half a^T)
\* for the one and sqrt(t va / 2 (va / 2 + 1)) for the other.
C9_AsymptoticAgreement ==
    /\ \A s \in AsymptoticSimulators :
        LET t == ChannelOf(s).t
            xi == ChannelOf(s).xi
            va == ModulationOf(s).va
            eta == DetectorOf(s).eta
            vel == DetectorOf(s).vel
        IN  /\ simulators[s].n_B = PyDiv(Mul(t, Add(va, xi)), Two)
            /\ simulators[s].c2 = PyDiv(Mul(MathSqrt(t), va), Two)
            /\ AsymptoticSnrOf(s) =
                    PyDiv(Mul(Mul(t, va), eta),
                          Add(Add(Two, Mul(Two, vel)), Mul(Mul(eta, t), xi)))
            /\ ret.op = "snr" /\ ret.sim = s => ret.value = <<AsymptoticSnrOf(s)>>
            /\ simulators[s].c1 =
                    IF simulators[s].kind = "gaussian_channel"
                    THEN Mul(MathSqrt(t), ModulationOf(s).tau_trace)
                    ELSE MathSqrt(Mul(PyDiv(Mul(t, va), Two), Add(PyDiv(va, Two), One)))
    /\ \A i, j \in AsymptoticSimulators :
            SameSetting(i, j) =>
                /\ simulators[i].n_B = simulators[j].n_B
                /\ simulators[i].c2 = simulators[j].c2
                /\ AsymptoticSnrOf(i) = AsymptoticSnrOf(j)

\* one calculator of each kind over the same modulation, channel and detector,
\* with different c1, and snr() called on the second
C9_Witness ==
    /\ Len(simulators) = 2
    /\ simulators[1].kind = "gaussian_channel"
    /\ simulators[2].kind = "gaussian_modulation"
    /\ SameInputs(1, 2)
    /\ simulators[1].c1 # simulators[2].c1
    /\ ChannelOf(1).t # One
    /\ ret.op = "snr"
    /\ ret.sim = 2

(***************************************************************************)
(* Building modulations.                                                   *)
(***************************************************************************)
InitMod ==
    /\ modulations = <<>>
    /\ channels = <<>>
    /\ detectors = <<>>
    /\ simulators = <<>>
    /\ drawn = <<>>
    /\ rng = 0
    /\ ret = NoReturn
    /\ err = Zero

\* the outcome of a modulation constructor
ConstructedModulation(mod) ==
    /\ err' = mod.raised
    /\ IF IsExc(mod.raised)
       THEN UNCHANGED modulations
       ELSE modulations' = Append(modulations, mod)
    /\ UNCHANGED <<channels, detectors, simulators, drawn, rng, ret>>

NewGaussianModulation(va) ==
    /\ Len(modulations) < MaxMods
    /\ ConstructedModulation(GaussianModulation(va))

NewBinomialQAM(dim, size, va, fock) ==
    /\ Len(modulations) < MaxMods
    /\ ConstructedModulation(BinomialQAM(dim, size, va, fock))

NewGaussianQAM(dim, size, va, q, fock) ==
    /\ Len(modulations) < MaxMods
    /\ ConstructedModulation(GaussianQAM(dim, size, va, q, fock))

\* del modulation: the caller drops its reference
DelModulation ==
    /\ modulations # <<>>
    /\ modulations' = SubSeq(modulations, 1, Len(modulations) - 1)
    /\ UNCHANGED <<channels, detectors, simulators, drawn, rng, ret, err>>

NextMod ==
    \/ \E va \in Vas : NewGaussianModulation(va)
    \/ \E dim \in Dims, size \in Sizes, va \in Vas, fock \in Focks :
            NewBinomialQAM(dim, size, va, fock)
    \/ \E dim \in Dims, size \in Sizes, va \in Vas, q \in Qs, fock \in Focks :
            NewGaussianQAM(dim, size, va, q, fock)
    \/ DelModulation

SpecMod == InitMod /\ [][NextMod]_vars

(***************************************************************************)
(* Properties of the modulations.                                          *)
(***************************************************************************)
\* the QAM modulations of side at least 2
QAMs == {i \in 1..Len(modulations) : IsQAM(modulations[i]) /\ modulations[i].size >= 2}

\* the k-th point of the square lattice of side size, in the order of
\* product(quadratures, quadratures)
LatticeX(size, k) == -size + 1 + 2 * ((k - 1) \div size)
LatticeY(size, k) == -size + 1 + 2 * ((k - 1) % size)

\* the weight the modulation m gives the k-th lattice point
WeightOfPoint(m, k) ==
    IF m.kind = "binomial_qam"
    THEN Rat(comb(m.size - 1, (LatticeX(m.size, k) + m.size - 1) \div 2)
               * comb(m.size - 1, (LatticeY(m.size, k) + m.size - 1) \div 2),
             4^(m.size - 1))
    ELSE NpDiv(PowV(m.q, LatticeX(m.size, k)^2 + LatticeY(m.size, k)^2),
               Sum([l \in 1..(m.size * m.size) |->
                       PowV(m.q, LatticeX(m.size, l)^2 + LatticeY(m.size, l)^2)]))

\* each entry of a distribution is rounded by less than one unit of the grid
NormalisationTolerance(m) == <<m.size * m.size, 2^PrecBits>>

\* C3: in every QAM modulation built (binomial or Gaussian, side at least 2) the
\* distribution and the constellation both have size^2 entries, the
\* probabilities are non-negative and sum to 1 (to rounding), and
\* distribution[k] is the weight of the lattice point constellation[k] is the
\* image of, the two running over the lattice in the same order.
C3_Normalised ==
    \A i \in QAMs :
        LET m == modulations[i]
            n == m.size * m.size
        IN  /\ Len(m.distribution) = n
            /\ Len(m.constellation) = n
            /\ \A k \in 1..n : Le(Zero, m.distribution[k])
            /\ Le(AbsV(Sub(Sum(m.distribution), One)), NormalisationTolerance(m))
            /\ Lt(Zero, m.constellation[n][1])
            /\ \A k \in 1..n :
                /\ Mul(m.constellation[k][1], IntV(m.size - 1))
                        = Mul(IntV(LatticeX(m.size, k)), m.constellation[n][1])
                /\ Mul(m.constellation[k][2], IntV(m.size - 1))
                        = Mul(IntV(LatticeY(m.size, k)), m.constellation[n][1])
                /\ m.distribution[k] = WeightOfPoint(m, k)

\* a Gaussian QAM of side 3 whose distribution is not uniform has been built
C3_Witness ==
    \E i \in QAMs :
        /\ modulations[i].kind = "gaussian_qam"
        /\ modulations[i].size = 3
        /\ modulations[i].distribution[1] # modulations[i].distribution[5]

\* sum_k distribution[k] |constellation[k]|^2
SecondMoment(m) ==
    Sum([k \in 1..Len(m.distribution) |-> Mul(m.distribution[k], CAbs2(m.constellation[k]))])

\* the rounding of the scale's square root, carried to the second moment
SecondMomentTolerance(m) == Mul(m.va, <<1, 2^(SqrtBits - 2)>>)

\* C4 as the specification states it: the second moment of the rescaled
\* constellation under the distribution equals va (to rounding).
C4_SecondMomentIsVa ==
    \A i \in QAMs :
        Le(AbsV(Sub(SecondMoment(modulations[i]), modulations[i].va)),
           SecondMomentTolerance(modulations[i]))

\* C4: for a binomial and for a Gaussian QAM (side at least 2) the second moment
\* of the rescaled constellation under the distribution,
\* sum_k distribution[k] |constellation[k]|^2, equals va / 2 (to rounding): va is
\* twice the mean photon number.
C4_SecondMomentIsHalfVa ==
    \A i \in QAMs :
        Le(AbsV(Sub(SecondMoment(modulations[i]), Mul(modulations[i].va, Half))),
           SecondMomentTolerance(modulations[i]))

\* a binomial QAM of side 3 has been built whose scale is a rounded square root
C4_Witness ==
    \E i \in QAMs :
        /\ modulations[i].kind = "binomial_qam"
        /\ modulations[i].size = 3
        /\ modulations[i].va = IntV(5)
        /\ IsFin(SecondMoment(modulations[i]))

\* C5: GaussianModulation(va), for any va > 0, raises nothing and gives a
\* modulation whose w is exactly 0 and whose va is the va it was given.
C5_GaussianModulationZeroLeakage ==
    [][\A va \in Vas :
            NewGaussianModulation(va) =>
                /\ Lt(Zero, va)
                /\ err' = Zero
                /\ Len(modulations') = Len(modulations) + 1
                /\ modulations'[Len(modulations')].kind = "gaussian"
                /\ modulations'[Len(modulations')].w = Zero
                /\ modulations'[Len(modulations')].va = va]_vars

\* a Gaussian modulation of va = 9/2 has been built
C5_Witness ==
    \E i \in 1..Len(modulations) :
        /\ modulations[i].kind = "gaussian"
        /\ modulations[i].va = <<9, 2>>
        /\ modulations[i].w = Zero

(***************************************************************************)
(* Building detectors and calling them.                                    *)
(***************************************************************************)
\* how many detectors a caller builds
MaxDets == 1

\* the inputs callers pass: efficiencies, electronic noises and covariance
\* triples <<V, W, Z>>
Etas == {Half, <<3, 4>>, <<7, 8>>, <<15, 16>>, One}
Vels == {Zero, <<1, 8>>}
Triples ==
    {<<IntV(5), IntV(3), IntV(2)>>,
     <<IntV(3), IntV(3), IntV(2)>>,
     <<IntV(3), IntV(2), One>>,
     <<IntV(5), <<17, 8>>, <<43, 20>>>>,
     <<IntV(5), One, Zero>>,
     <<IntV(2), IntV(2), IntV(3)>>,
     <<IntV(5), IntV(-1), One>>}

InitDet ==
    /\ modulations = <<>>
    /\ channels = <<>>
    /\ detectors = <<>>
    /\ simulators = <<>>
    /\ drawn = <<>>
    /\ rng = 0
    /\ ret = NoReturn
    /\ err = Zero

NewIdealHeterodyneDetector ==
    /\ Len(detectors) < MaxDets
    /\ detectors' = Append(detectors, IdealHeterodyneDetector)
    /\ err' = Zero
    /\ UNCHANGED <<modulations, channels, simulators, drawn, rng, ret>>

NewNoisyHeterodyneDetector(eta, Vel) ==
    /\ Len(detectors) < MaxDets
    /\ detectors' = Append(detectors, NoisyHeterodyneDetector(eta, Vel))
    /\ err' = Zero
    /\ UNCHANGED <<modulations, channels, simulators, drawn, rng, ret>>

\* detectors[d].sympl(V, W, Z), called with Python floats
CallSympl(d, V, W, Z) ==
    /\ ret' = [op |-> "sympl", sim |-> 0, value |-> sympl(detectors[d], V, W, Z, FALSE),
               args |-> <<V, W, Z>>, detector |-> d]
    /\ UNCHANGED <<modulations, channels, detectors, simulators, drawn, rng, err>>

\* detectors[d].holevo_bound(V, W, Z), called with Python floats
CallHolevoBound(d, V, W, Z) ==
    /\ ret' = [op |-> "holevo_bound", sim |-> 0,
               value |-> <<holevo_bound(detectors[d], V, W, Z, FALSE)>>,
               args |-> <<V, W, Z>>, detector |-> d]
    /\ UNCHANGED <<modulations, channels, detectors, simulators, drawn, rng, err>>

NextDet ==
    \/ NewIdealHeterodyneDetector
    \/ \E eta \in Etas, Vel \in Vels : NewNoisyHeterodyneDetector(eta, Vel)
    \/ \E d \in 1..Len(detectors), vwz \in Triples : CallSympl(d, vwz[1], vwz[2], vwz[3])
    \/ \E d \in 1..Len(detectors), vwz \in Triples : CallHolevoBound(d, vwz[1], vwz[2], vwz[3])

SpecDet == InitDet /\ [][NextDet]_vars

(***************************************************************************)
(* Properties of the detectors.                                            *)
(***************************************************************************)
\* |x - y| <= tol
Within(x, y, tol) == Le(AbsV(Sub(x, y)), tol)

\* the rounding a quotient of squares and a square root of it carry
RatioTolerance == <<1, 2^(PrecBits - 3)>>
RootTolerance == <<1, 2^(SqrtBits - 1)>>

\* how far from its limit the noisy bound may be at efficiency eta
HolevoTolerance(eta) == Mul(IntV(3), Sub(One, eta))

\* a triple the ideal detector gives a bound for: V, W >= 1 and no eigenvalue
\* at or under 1
ValidTriple(V, W, Z) ==
    /\ Le(One, V)
    /\ Le(One, W)
    /\ IsFin(holevo_bound(IdealHeterodyneDetector, V, W, Z, FALSE))

\* C10: for a valid (V, W, Z), the bound of the ideal detector is the limit of
\* the noisy detector's as eta -> 1 and vel -> 0.  At eta = 1 the noisy
\* detector's r1 and r2 are v3^2 + 1 and v3^2, v3 being the ideal detector's
\* third eigenvalue, so that its eigenvalues are the ideal ones and 1, where g
\* vanishes; and for eta < 1, whatever vel, the bound it returns is within
\* 3 (1 - eta) of the ideal detector's.
C10_IdealIsNoisyLimit ==
    (ret.op = "holevo_bound" /\ detectors[ret.detector].kind = "noisy") =>
        LET V == ret.args[1]
            W == ret.args[2]
            Z == ret.args[3]
            eta == detectors[ret.detector].eta
            ideal == holevo_bound(IdealHeterodyneDetector, V, W, Z, FALSE)
            v3 == IdealV3(V, W, Z, FALSE)
            r1 == NoisyR1(V, W, Z, One, NoisyNu, FALSE)
            r2 == NoisyR2(V, W, Z, One, NoisyNu, FALSE)
        IN  ValidTriple(V, W, Z) =>
                /\ Within(r1, Add(Sq(v3), One), RatioTolerance)
                /\ Within(r2, Sq(v3), RatioTolerance)
                /\ Within(NoisyV3(r1, r2), v3, RootTolerance)
                /\ Within(NoisyV4(r1, r2), One, RootTolerance)
                /\ IsFin(ret.value[1]) => Within(ret.value[1], ideal, HolevoTolerance(eta))

\* a noisy detector of efficiency 15/16 and electronic noise 1/8 has returned
\* a bound for a valid triple
C10_Witness ==
    /\ ret.op = "holevo_bound"
    /\ detectors[ret.detector].kind = "noisy"
    /\ detectors[ret.detector].eta = <<15, 16>>
    /\ detectors[ret.detector].vel = <<1, 8>>
    /\ ValidTriple(ret.args[1], ret.args[2], ret.args[3])
    /\ IsFin(ret.value[1])

\* a triple that is the covariance of a physical two-mode state: V, W >= 1,
\* V W >= Z^2 and both symplectic eigenvalues of the two-mode matrix at least 1
\* (V^2 + W^2 - 2 Z^2 >= 2 and 1 + (V W - Z^2)^2 >= V^2 + W^2 - 2 Z^2),
\* written out from the matrix rather than through the program's delta and gamma
ValidCovariance(V, W, Z) ==
    /\ Le(One, V)
    /\ Le(One, W)
    /\ Le(Sq(Z), Mul(V, W))
    /\ Le(Two, Sub(Add(Sq(V), Sq(W)), Mul(Two, Sq(Z))))
    /\ Le(Sub(Add(Sq(V), Sq(W)), Mul(Two, Sq(Z))), Add(One, Sq(Sub(Mul(V, W), Sq(Z)))))

\* the call of sympl that returns nothing: the noisy detector of efficiency 1,
\* whose documented nu divides by 1 - eta
SymplRaises(det) == det.kind = "noisy" /\ det.eta = One

NegativeRadicandIn(a, b) ==
    /\ IsFin(a)
    /\ IsFin(b)
    /\ \/ Lt(Sub(Sq(a), Mul(IntV(4), b)), Zero)
       \/ /\ Le(Zero, Sub(Sq(a), Mul(IntV(4), b)))
          /\ \/ Lt(Add(a, SqrtFin(Sub(Sq(a), Mul(IntV(4), b)))), Zero)
             \/ Lt(Sub(a, SqrtFin(Sub(Sq(a), Mul(IntV(4), b)))), Zero)

\* a radicand of the detector's eigenvalue formulas is negative on (V, W, Z)
NegativeRadicand(det, V, W, Z, znp) ==
    \/ NegativeRadicandIn(delta(V, W, Z), gamma(V, W, Z))
    \/ /\ det.kind = "noisy"
       /\ NegativeRadicandIn(NoisyR1(V, W, Z, det.eta, NoisyNu, znp),
                             NoisyR2(V, W, Z, det.eta, NoisyNu, znp))

\* an eigenvalue the detector computed is a number that does not exceed 1
EigenvalueAtMostOne(det, V, W, Z, znp) ==
    \E i \in 1..Len(sympl(det, V, W, Z, znp)) :
        /\ IsFin(sympl(det, V, W, Z, znp)[i])
        /\ Le(sympl(det, V, W, Z, znp)[i], One)

\* the signal-to-noise ratios skr() is tried with
SomeSnrs == {Zero, Half, One, IntV(3)}

\* C12: when a radicand of the eigenvalue formulas is negative or an eigenvalue
\* is at most 1 (g is applied to an argument <= 0, g(0) included), holevo_bound
\* of either detector ends in an error, whether Z is a float or a numpy float,
\* and skr()'s last line hands that error on instead of a number.
C12_HolevoPreconditionsRaise ==
    ret.op = "holevo_bound" =>
        /\ ret.value[1] = holevo_bound(detectors[ret.detector], ret.args[1], ret.args[2],
                                       ret.args[3], FALSE)
        /\ \A znp \in BOOLEAN :
             (\/ NegativeRadicand(detectors[ret.detector], ret.args[1], ret.args[2],
                                  ret.args[3], znp)
              \/ EigenvalueAtMostOne(detectors[ret.detector], ret.args[1], ret.args[2],
                                     ret.args[3], znp)) =>
                 /\ IsExc(holevo_bound(detectors[ret.detector], ret.args[1], ret.args[2],
                                       ret.args[3], znp))
                 /\ \A s \in SomeSnrs :
                      SkrOn(<<19, 20>>, holevo_bound(detectors[ret.detector], ret.args[1],
                                                     ret.args[2], ret.args[3], znp), s)
                        = holevo_bound(detectors[ret.detector], ret.args[1], ret.args[2],
                                       ret.args[3], znp)

\* holevo_bound was called where v2 is exactly 1, and g(0) raised
C12_Witness ==
    /\ ret.op = "holevo_bound"
    /\ ~NegativeRadicand(detectors[ret.detector], ret.args[1], ret.args[2], ret.args[3], FALSE)
    /\ sympl(detectors[ret.detector], ret.args[1], ret.args[2], ret.args[3], FALSE)[2] = One
    /\ ret.value[1] = ValueError

\* the radicand of z_star (simulator.py 100) is a negative number
RacineNegative(s) ==
    /\ IsFin(Racine(simulators[s], ModulationOf(s)))
    /\ Racine(simulators[s], ModulationOf(s))[1] < 0

\* C13: when the radicand w (n_B - 2 c2^2 / va) of z_star is negative,
\* covariance() ends in an error instead of returning a triple, and skr() does
\* not return a number.
C13_NegativeRadicandReported ==
    (ret.op \in {"covariance", "skr"} /\ RacineNegative(ret.sim)) =>
        IsExc(FirstExc(ret.value))

\* covariance() returned a triple whose z_star is nan, the radicand being negative
C13_Witness ==
    /\ ret.op = "covariance"
    /\ RacineNegative(ret.sim)
    /\ IsFin(ret.value[1])
    /\ IsFin(ret.value[2])
    /\ IsNaN(ret.value[3])

(***************************************************************************)
(* The simulators over modulations of variance 0.  With va = 0 every       *)
(* constellation point is 0, tau is the vacuum projector, a_tau vanishes   *)
(* and w = 0 (qam.py 73-103).                                              *)
(***************************************************************************)
TheVaZeroModulations ==
    <<BinomialQAM(2, 2, Zero, [w |-> Zero, kappa |-> One]), GaussianModulation(Zero)>>

InitVaZero ==
    /\ modulations = TheVaZeroModulations
    /\ channels = TheChannels
    /\ detectors = TheDetectors
    /\ simulators = <<>>
    /\ drawn = <<>>
    /\ rng = 0
    /\ ret = NoReturn
    /\ err = Zero

SpecVaZero == InitVaZero /\ [][Next]_vars

\* C14: for each of the three simulator variants, covariance() and skr() of a
\* simulator whose modulation has va = 0 end in an error and return no result.
C14_VaZeroFails ==
    (ret.op \in {"covariance", "skr"} /\ ModulationOf(ret.sim).va = Zero) =>
        IsExc(FirstExc(ret.value))

\* a finite-size simulator over va = 0 returned a triple from covariance(),
\* z_star being nan
C14_Witness ==
    /\ ret.op = "covariance"
    /\ simulators[ret.sim].kind = "finite_size"
    /\ ModulationOf(ret.sim).va = Zero
    /\ ret.value[1] = One
    /\ IsFin(ret.value[2])
    /\ IsNaN(ret.value[3])

\* C15: FiniteSizeSimulator over a GaussianModulation fails fast: the
\* constructor ends in an error, the generator has made no draw, and no
\* simulator (no c1, c2, n_B) has been produced.
C15_NonDiscreteFailsFast ==
    [][\A m \in 1..Len(modulations), c \in 1..Len(channels), d \in 1..Len(detectors),
          n_symbols \in NSymbols, beta \in Betas :
            (NewFiniteSizeSimulator(m, c, d, n_symbols, beta) /\ modulations[m].kind = "gaussian") =>
                /\ IsExc(err')
                /\ rng' = rng
                /\ drawn' = drawn
                /\ simulators' = simulators
                /\ IsExc(FiniteSizeSimulator(modulations[m], channels[c], detectors[d],
                                             n_symbols, beta, rng, <<m, c, d>>).raised)]_vars

\* a constructor has just raised AttributeError with the generator where the
\* seed left it and no simulator built
C15_Witness ==
    /\ err = AttributeError
    /\ simulators = <<>>
    /\ drawn = <<>>
    /\ rng = 0
    /\ \E m \in 1..Len(modulations) :
         /\ modulations[m].kind = "gaussian"
         /\ FiniteSizeSimulator(modulations[m], channels[1], detectors[1], 2, <<19, 20>>,
                                rng, <<m, 1, 1>>).raised = AttributeError

\* the electronic noises a noisy detector is compared over
OtherVels == {Zero, <<1, 8>>, Half, IntV(3)}

\* what the call recorded in ret returns on the same detector with noise vel
ReturnWithVel(vel) ==
    IF ret.op = "sympl"
    THEN sympl(NoisyHeterodyneDetector(detectors[ret.detector].eta, vel),
               ret.args[1], ret.args[2], ret.args[3], FALSE)
    ELSE <<holevo_bound(NoisyHeterodyneDetector(detectors[ret.detector].eta, vel),
                        ret.args[1], ret.args[2], ret.args[3], FALSE)>>

FiniteSeeds == 0..(Period - 1)
FiniteNSymbols == {2, 4, 5}

TheFiniteModulations ==
    <<BinomialQAM(2, 2, IntV(4), [w |-> <<1, 4>>, kappa |-> <<6, 5>>]),
      GaussianQAM(2, 3, IntV(4), <<3, 4>>, [w |-> <<1, 4>>, kappa |-> <<6, 5>>])>>

InitFinite ==
    /\ modulations = TheFiniteModulations
    /\ channels = TheChannels
    /\ detectors = TheDetectors
    /\ simulators = <<>>
    /\ drawn = <<>>
    /\ rng = 0
    /\ ret = NoReturn
    /\ err = Zero

\* a caller that seeds the generator and builds one finite-size simulator
NextFinite ==
    \/ \E p \in FiniteSeeds : Seed(p)
    \/ \E m \in 1..Len(modulations), c \in 1..Len(channels), d \in 1..Len(detectors),
          n_symbols \in FiniteNSymbols, beta \in Betas :
            /\ simulators = <<>>
            /\ NewFiniteSizeSimulator(m, c, d, n_symbols, beta)

SpecFinite == InitFinite /\ [][NextFinite]_vars

\* the index (0-based) of the constellation point alpha
SymbolIndex(mod, alpha) ==
    CHOOSE x \in 0..(Len(mod.constellation) - 1) : mod.constellation[x + 1] = alpha

\* the indices of the symbols simulator s sent, in the order of alice_string
SentIndices(s) ==
    [j \in 1..Len(simulators[s].alice_string) |->
        SymbolIndex(ModulationOf(s), simulators[s].alice_string[j])]

\* the indices the generator drew for simulator s, in the order drawn
DrawnIndices(s) ==
    [j \in 1..simulators[s].n_symbols |->
        PpfFrom(ModulationOf(s).distribution, UniformTape[drawn[s][j] + 1], 1)]

Occurrences(xs, x) == Cardinality({j \in 1..Len(xs) : xs[j] = x})

\* the positions of the strings whose transmitted symbol is constellation[x]
SamplesOf(s, x) == {j \in 1..Len(simulators[s].alice_string) : SentIndices(s)[j] = x}

\* the slice bob_string[i : i + freq] of index x, i counting the samples of
\* smaller indices and freq those of x
SliceOf(s, x) ==
    SubSeq(simulators[s].bob_string,
           Cardinality({j \in 1..Len(simulators[s].alice_string) : SentIndices(s)[j] < x}) + 1,
           Cardinality({j \in 1..Len(simulators[s].alice_string) : SentIndices(s)[j] <= x}))

\* the channel output of the j-th symbol, rescaled: sqrt(2 / eta) times
\* sqrt(t eta / 2) alice_string[j] plus the j-th real and imaginary draws
RescaledOutput(s, j) ==
    CScale(NpSqrt(PyDiv(Two, DetectorOf(s).eta)),
           CAdd(CScale(NpSqrt(Mul(Mul(ChannelOf(s).t, DetectorOf(s).eta), Half)),
                       simulators[s].alice_string[j]),
                <<Mul(NoiseScale(ChannelOf(s), DetectorOf(s)),
                      NormalTape[drawn[s][simulators[s].n_symbols + j] + 1]),
                  Mul(NoiseScale(ChannelOf(s), DetectorOf(s)),
                      NormalTape[drawn[s][2 * simulators[s].n_symbols + j] + 1])>>))

\* the sum over the observed indices up to x, in ascending order, of
\* distribution[x] times the mean of |bob|^2 over the slice of x
RECURSIVE WeightedSliceMeans(_, _)
WeightedSliceMeans(s, x) ==
    IF x < 0 THEN Zero
    ELSE IF SamplesOf(s, x) = {} THEN WeightedSliceMeans(s, x - 1)
    ELSE Add(WeightedSliceMeans(s, x - 1),
             Mul(ModulationOf(s).distribution[x + 1], MeanAbs2(SliceOf(s, x))))

\* the state in which the grouping loop of simulator s ends
LoopExit(s) ==
    GroupLoop(CounterKeys(SentIndices(s)), SentIndices(s), simulators[s].bob_string,
              ModulationOf(s).distribution,
              [i |-> 0,
               betas |-> [k \in 1..Len(ModulationOf(s).constellation) |-> CZero],
               n_B |-> Zero])

\* C19: in every finite-size simulator built, the drawn indices are sorted
\* before they are mapped to symbols; alice_string and bob_string have length
\* n_symbols and bob_string[j] is the rescaled channel output of
\* alice_string[j]; the loop visits the observed indices in ascending order and
\* the slice of index x holds exactly the samples whose symbol is
\* constellation[x], the slices covering the string (i = n_symbols at exit);
\* betas[x] is the slice's mean, and n_B is the distribution-weighted sum of
\* the slices' mean |bob|^2 minus (1 + vel) / eta.
C19_GroupingInvariants ==
    \A s \in 1..Len(simulators) :
        /\ Len(simulators[s].alice_string) = simulators[s].n_symbols
        /\ Len(simulators[s].bob_string) = simulators[s].n_symbols
        /\ \A j \in 1..(simulators[s].n_symbols - 1) : SentIndices(s)[j] <= SentIndices(s)[j + 1]
        /\ \A x \in 0..(Len(ModulationOf(s).constellation) - 1) :
             Occurrences(SentIndices(s), x) = Occurrences(DrawnIndices(s), x)
        /\ \A j \in 1..simulators[s].n_symbols :
             simulators[s].bob_string[j] = RescaledOutput(s, j)
        /\ \A k \in 1..(Len(CounterKeys(SentIndices(s))) - 1) :
             CounterKeys(SentIndices(s))[k] < CounterKeys(SentIndices(s))[k + 1]
        /\ \A x \in 0..(Len(ModulationOf(s).constellation) - 1) :
             /\ \A j \in 1..simulators[s].n_symbols :
                  (\E k \in 1..Len(SliceOf(s, x)) :
                      j = k + Cardinality({i \in 1..simulators[s].n_symbols :
                                              SentIndices(s)[i] < x}))
                    <=> j \in SamplesOf(s, x)
             /\ simulators[s].betas[x + 1] =
                  IF SamplesOf(s, x) = {} THEN CZero ELSE CMean(SliceOf(s, x))
        /\ LoopExit(s).i = simulators[s].n_symbols
        /\ LoopExit(s).betas = simulators[s].betas
        /\ simulators[s].n_B =
             Sub(WeightedSliceMeans(s, Len(ModulationOf(s).constellation) - 1),
                 PyDiv(Add(One, DetectorOf(s).vel), DetectorOf(s).eta))

\* a simulator was built from indices drawn out of order, one of them twice
C19_Witness ==
    \E s \in 1..Len(simulators) :
        /\ \E j \in 1..(simulators[s].n_symbols - 1) : DrawnIndices(s)[j] > DrawnIndices(s)[j + 1]
        /\ \E x \in 0..(Len(ModulationOf(s).constellation) - 1) :
             /\ Cardinality(SamplesOf(s, x)) = 2
             /\ \E j \in SamplesOf(s, x) : j > 1 /\ j + 1 \in SamplesOf(s, x)
        /\ IsFin(simulators[s].n_B)

(***************************************************************************)
(* GaussianChannel.sample_output called by itself.  In ret, sim holds the  *)
(* index of the channel called, detector that of the detector passed and   *)
(* args the symbols array as the call left it.                             *)
(***************************************************************************)
SymbolAlphabet == {<<One, One>>, <<IntV(-1), One>>, <<Zero, IntV(-2)>>}
MaxSymbols == 2
SymbolStrings == UNION {[1..n -> SymbolAlphabet] : n \in 0..MaxSymbols}

InitChannel ==
    /\ modulations = <<>>
    /\ channels = TheChannels
    /\ detectors = TheDetectors
    /\ simulators = <<>>
    /\ drawn = <<>>
    /\ rng = 0
    /\ ret = NoReturn
    /\ err = Zero

\* channels[c].sample_output(symbols, detectors[d])
CallSampleOutput(c, d, symbols) ==
    /\ ret' = [op |-> "sample_output", sim |-> c,
               value |-> sample_output(channels[c], symbols, detectors[d], rng),
               args |-> symbols, detector |-> d]
    /\ rng' = Advance(rng, 2 * Len(symbols))
    /\ UNCHANGED <<modulations, channels, detectors, simulators, drawn, err>>

NextChannel ==
    \/ \E p \in FiniteSeeds : Seed(p)
    \/ \E c \in 1..Len(channels), d \in 1..Len(detectors), symbols \in SymbolStrings :
            CallSampleOutput(c, d, symbols)

SpecChannel == InitChannel /\ [][NextChannel]_vars

\* 0.5 * sqrt(1 + vel + eta * t * xi / 2)
NoiseDeviation(t, xi, eta, vel) ==
    Mul(Half, NpSqrt(Add(Add(One, vel), PyDiv(Mul(Mul(eta, t), xi), Two))))

TheEdgeChannels == <<GaussianChannel(Half, Zero), GaussianChannel(Zero, Half)>>

InitEdge ==
    /\ modulations = TheModulations
    /\ channels = TheEdgeChannels
    /\ detectors = TheDetectors
    /\ simulators = <<>>
    /\ drawn = <<>>
    /\ rng = 0
    /\ ret = NoReturn
    /\ err = Zero

SpecEdge == InitEdge /\ [][Next]_vars

\* the factor of w in the radicand of z_star (simulator.py 100)
RacineFactor(sim, mod) ==
    Sub(sim.n_B, Div(IsNumpy(sim), Mul(Two, Sq(sim.c2)), mod.va))

\* simulators[s] is one of the two asymptotic calculators
IsAsymptotic(s) == simulators[s].kind \in {"gaussian_channel", "gaussian_modulation"}

\* C21: for both asymptotic calculators with va > 0 the factor
\* n_B - 2 c2^2 / va of the radicand of z_star equals t xi / 2, so the radicand
\* is never negative (t, xi and w being non-negative), and over a modulation
\* with w = 0 covariance() returns z_star = 2 c1 exactly.
C21_RadicandFactor ==
    (ret.op = "covariance" /\ IsAsymptotic(ret.sim) /\ Lt(Zero, ModulationOf(ret.sim).va)) =>
        /\ RacineFactor(simulators[ret.sim], ModulationOf(ret.sim)) =
               Div(FALSE, Mul(ChannelOf(ret.sim).t, ChannelOf(ret.sim).xi), Two)
        /\ ~RacineNegative(ret.sim)
        /\ ModulationOf(ret.sim).w = Zero =>
               ret.value[3] = Mul(Two, simulators[ret.sim].c1)

\* covariance() of a GaussianChannelAsymptoticCalculator over a pure-loss
\* channel returned z_star = nan, the factor of its radicand being negative
\* where t xi / 2 is 0
C21_Witness ==
    /\ ret.op = "covariance"
    /\ simulators[ret.sim].kind = "gaussian_channel"
    /\ Lt(Zero, ModulationOf(ret.sim).va)
    /\ ChannelOf(ret.sim).xi = Zero
    /\ Lt(RacineFactor(simulators[ret.sim], ModulationOf(ret.sim)), Zero)
    /\ IsNaN(ret.value[3])

(***************************************************************************)
(* Floating point proper.  The floats above keep small denominators exact  *)
(* and round roots to 2^-SqrtBits, which is too coarse to tell an          *)
(* eigenvalue a rounding error away from 1 from 1 itself.  Here every      *)
(* operation gives the correctly rounded result (nearest, ties to even) in *)
(* a significand of FloatBits bits, as IEEE 754 arithmetic does in 53; the *)
(* values stay pairs <<n, d>>, d a power of two.                           *)
(***************************************************************************)
FloatBits == PrecBits

\* a / b = q * 2^e with 2^(FloatBits-1) <= q < 2^FloatBits, for a, b > 0
RECURSIVE FlScale(_, _, _)
FlScale(a, b, e) ==
    IF a \div b >= 2^FloatBits THEN FlScale(a, 2 * b, e + 1)
    ELSE IF a \div b < 2^(FloatBits - 1) THEN FlScale(2 * a, b, e - 1)
    ELSE <<a, b, e>>

\* the quotient q, remainder r of a division by b, rounded to nearest, ties to even
FlNearest(q, r, b) == IF 2 * r > b \/ (2 * r = b /\ q % 2 = 1) THEN q + 1 ELSE q

FlValue(m, e) == IF e >= 0 THEN <<m * 2^e, 1>> ELSE Reduce(m, 2^(-e))

FlOf(s) == FlValue(FlNearest(s[1] \div s[2], s[1] % s[2], s[2]), s[3])

\* the float nearest to n / d, d > 0
Fl(n, d) ==
    IF n = 0 THEN Zero
    ELSE IF n > 0 THEN FlOf(FlScale(n, d, 0))
    ELSE Neg(FlOf(FlScale(-n, d, 0)))

\* the larger of two denominators, powers of two both
FlDen(x, y) == IF x[2] > y[2] THEN x[2] ELSE y[2]

FlAddOver(x, y, d) == Fl(x[1] * (d \div x[2]) + y[1] * (d \div y[2]), d)

FlAdd(x, y) ==
    IF IsExc(x) THEN x ELSE IF IsExc(y) THEN y ELSE FlAddOver(x, y, FlDen(x, y))

FlSub(x, y) == FlAdd(x, Neg(y))

FlMul(x, y) ==
    IF IsExc(x) THEN x ELSE IF IsExc(y) THEN y ELSE Fl(x[1] * y[1], x[2] * y[2])

FlSq(x) == FlMul(x, x)

\* x ** 4
FlPow4(x) == IF IsExc(x) THEN x ELSE Fl(x[1] * x[1] * x[1] * x[1], x[2] * x[2] * x[2] * x[2])

\* x / y; a zero divisor is left to the caller's kind of division
FlDiv(znp, x, y) ==
    IF IsExc(x) THEN x
    ELSE IF IsExc(y) THEN y
    ELSE IF y[1] = 0 THEN Div(znp, x, y)
    ELSE Fl(SgnI(y[1]) * x[1] * y[2], x[2] * AbsI(y[1]))

\* n / d with d the square of a power of two
FlRootEven(x) == IF ISqrt(x[2]) * ISqrt(x[2]) = x[2] THEN x ELSE <<2 * x[1], 2 * x[2]>>

\* sqrt(n) / h with n scaled up until its root has two bits to spare
RECURSIVE FlRootScale(_, _)
FlRootScale(n, h) == IF n < 4^(FloatBits + 1) THEN FlRootScale(4 * n, 2 * h) ELSE <<n, h>>

\* the root r = floor(sqrt(n)) over h, rounded; an inexact root lies strictly
\* between r and r + 1, and is rounded as their midpoint is
FlRootOf(n, r, h) == IF r * r = n THEN Fl(r, h) ELSE Fl(2 * r + 1, 2 * h)

FlRootAt(s) == FlRootOf(s[1], ISqrt(s[1]), s[2])

FlSqrtPos(x) == FlRootAt(FlRootScale(x[1], ISqrt(x[2])))

\* math.sqrt, correctly rounded; a negative argument raises
FlMathSqrt(x) ==
    IF IsExc(x) THEN x
    ELSE IF x[1] < 0 THEN ValueError
    ELSE IF x[1] = 0 THEN Zero
    ELSE FlSqrtPos(FlRootEven(x))

\* utils.delta and utils.gamma, operation by operation
FloatDelta(v, w, z) == FlSub(FlAdd(FlSq(v), FlSq(w)), FlMul(Two, FlSq(z)))

FloatGamma(v, w, z) ==
    FlAdd(FlSub(FlMul(FlSq(v), FlSq(w)), FlMul(FlMul(FlMul(Two, v), w), FlSq(z))), FlPow4(z))

\* delt**2 - 4 * gam (detector.py 97, 98)
FloatDiscriminant(delt, gam) == FlSub(FlSq(delt), FlMul(IntV(4), gam))

FloatSymplV1Of(delt, gam) ==
    FlMathSqrt(FlMul(FlAdd(delt, FlMathSqrt(FloatDiscriminant(delt, gam))), Half))

FloatSymplV2Of(delt, gam) ==
    FlMathSqrt(FlMul(FlSub(delt, FlMathSqrt(FloatDiscriminant(delt, gam))), Half))

\* IdealHeterodyneDetector.sympl: <<v1, v2, v3>>
FloatIdealSympl(V, W, Z, znp) ==
    <<FloatSymplV1Of(FloatDelta(V, W, Z), FloatGamma(V, W, Z)),
      FloatSymplV2Of(FloatDelta(V, W, Z), FloatGamma(V, W, Z)),
      FlSub(V, FlDiv(znp, FlSq(Z), FlAdd(W, One)))>>

\* IdealHeterodyneDetector.holevo_bound, its eigenvalues in floating point proper
FloatHolevoBound(V, W, Z, znp) == IdealHolevoOf(FloatIdealSympl(V, W, Z, znp))

FloatHolevoBoundOn(vwz) ==
    IF IsExc(FirstExc(vwz)) THEN FirstExc(vwz)
    ELSE FloatHolevoBound(vwz[1], vwz[2], vwz[3], TRUE)

\* Simulator.skr over an ideal detector
FloatSkr(sim, mod, ch, det) ==
    SkrOn(sim.beta, FloatHolevoBoundOn(HolevoArguments(sim, mod)), snr(sim, mod, ch, det))

(***************************************************************************)
(* The asymptotic calculators over an opaque channel (t = 0), for variances*)
(* va = k / 2^(FloatBits-2): va + 1 is then a float, and n_B = c1 = c2 = 0 *)
(* and covariance() are exact whatever the arithmetic.                     *)
(***************************************************************************)
NOpaqueVas == 2^(FloatBits - 4)
OpaqueVa(k) == Reduce(k, 2^(FloatBits - 2))

TheOpaqueModulations ==
    [i \in 1..(2 * NOpaqueVas) |->
        IF i <= NOpaqueVas THEN GaussianModulation(OpaqueVa(i))
        ELSE BinomialQAM(2, 2, OpaqueVa(i - NOpaqueVas), [w |-> <<1, 4>>, kappa |-> <<6, 5>>])]

InitOpaque ==
    /\ modulations = TheOpaqueModulations
    /\ channels = <<GaussianChannel(Zero, Half)>>
    /\ detectors = <<IdealHeterodyneDetector>>
    /\ simulators = <<>>
    /\ drawn = <<>>
    /\ rng = 0
    /\ ret = NoReturn
    /\ err = Zero

\* simulators[s].skr()
CallFloatSkr(s) ==
    /\ ret' = [op |-> "skr", sim |-> s,
               value |-> <<FloatSkr(simulators[s], ModulationOf(s), ChannelOf(s), DetectorOf(s))>>,
               args |-> HolevoArguments(simulators[s], ModulationOf(s)),
               detector |-> simulators[s].detector]
    /\ UNCHANGED <<modulations, channels, detectors, simulators, drawn, rng, err>>

NextOpaque ==
    \/ \E m \in 1..Len(modulations), beta \in Betas :
            simulators = <<>> /\ NewGaussianChannelAsymptoticCalculator(m, 1, 1, beta)
    \/ \E m \in 1..Len(modulations), beta \in Betas :
            simulators = <<>> /\ NewGaussianModulationAsymptoticCalculator(m, 1, 1, beta)
    \/ \E s \in 1..Len(simulators) : CallCovariance(s)
    \/ \E s \in 1..Len(simulators) : CallFloatSkr(s)

SpecOpaque == InitOpaque /\ [][NextOpaque]_vars

\* C22: over a channel with t = 0 and a modulation with va > 0 both asymptotic
\* calculators are constructed with n_B = c1 = c2 = 0, covariance() returns
\* (va + 1, 1, 0), and skr() ends in a domain error instead of returning a
\* number, the eigenvalue v2 being exactly 1 and g being applied to 0.
C22_OpaqueChannelSkrFails ==
    (ret.op \in {"covariance", "skr"} /\ IsAsymptotic(ret.sim)
        /\ ChannelOf(ret.sim).t = Zero /\ Lt(Zero, ModulationOf(ret.sim).va)) =>
        /\ simulators[ret.sim].n_B = Zero
        /\ simulators[ret.sim].c1 = Zero
        /\ simulators[ret.sim].c2 = Zero
        /\ ret.op = "covariance" =>
               ret.value = <<Add(ModulationOf(ret.sim).va, One), One, Zero>>
        /\ ret.op = "skr" =>
               /\ ret.args = <<Add(ModulationOf(ret.sim).va, One), One, Zero>>
               /\ FloatIdealSympl(ret.args[1], ret.args[2], ret.args[3], TRUE)[2] = One
               /\ ret.value[1] = ValueError

\* skr() over an opaque channel returned a number, rounding having left v2
\* above 1
C22_Witness ==
    /\ ret.op = "skr"
    /\ IsAsymptotic(ret.sim)
    /\ ChannelOf(ret.sim).t = Zero
    /\ Lt(Zero, ModulationOf(ret.sim).va)
    /\ ret.args = <<Add(ModulationOf(ret.sim).va, One), One, Zero>>
    /\ Lt(One, FloatIdealSympl(ret.args[1], ret.args[2], ret.args[3], TRUE)[2])
    /\ IsFin(ret.value[1])

\* the error a call of the noisy detector at eta = 1 ends in: the domain error
\* of math.sqrt where v1 or v2 has a negative radicand (detector.py 160-161),
\* the division by 1 - eta = 0 of line 163 otherwise
EtaOneError(V, W, Z) ==
    IF NegativeRadicandIn(delta(V, W, Z), gamma(V, W, Z)) THEN ValueError
    ELSE ZeroDivisionError

\* C23 as stated: a NoisyHeterodyneDetector with eta = 1 is constructed, and
\* every call of its sympl or holevo_bound ends in the division-by-zero error
\* of 1 + 2 vel / (1 - eta), returning no eigenvalue.
C23_EtaOneDividesByZero ==
    (ret.op \in {"sympl", "holevo_bound"} /\ SymplRaises(detectors[ret.detector])) =>
        \A i \in 1..Len(ret.value) : ret.value[i] = ZeroDivisionError

\* C23: a NoisyHeterodyneDetector with eta = 1 is constructed, and no call of
\* its sympl or holevo_bound returns: it ends in the domain error of math.sqrt
\* when a radicand of v1 or v2 is negative, and in the division-by-zero error of
\* 1 + 2 vel / (1 - eta) in every other case.
C23_EtaOneRaises ==
    (ret.op \in {"sympl", "holevo_bound"} /\ SymplRaises(detectors[ret.detector])) =>
        \A i \in 1..Len(ret.value) :
            ret.value[i] = EtaOneError(ret.args[1], ret.args[2], ret.args[3])

\* holevo_bound of a noisy detector with eta = 1 and vel = 0 ended in the
\* division by zero, the radicands of v1 and v2 being non-negative
C23_Witness ==
    /\ ret.op = "holevo_bound"
    /\ SymplRaises(detectors[ret.detector])
    /\ detectors[ret.detector].vel = Zero
    /\ ~NegativeRadicandIn(delta(ret.args[1], ret.args[2], ret.args[3]),
                           gamma(ret.args[1], ret.args[2], ret.args[3]))
    /\ ret.value = <<ZeroDivisionError>>

\* C24: BinomialQAM(dim, 1, va) cannot be constructed: the scale
\* sqrt(va / (4 (size - 1))) divides by zero, the constructor ends in
\* ZeroDivisionError and the caller gets no modulation (QAM.__init__, which sets
\* dim, tau_half, a_tau and w, is never reached); no BinomialQAM of side 1
\* exists.
C24_BinomialSizeOneRaises ==
    [][/\ \A dim \in Dims, va \in Vas, fock \in Focks :
              NewBinomialQAM(dim, 1, va, fock) =>
                  (err' = ZeroDivisionError /\ modulations' = modulations)
       /\ \A i \in 1..Len(modulations') :
              modulations'[i].kind = "binomial_qam" => modulations'[i].size >= 2]_vars

\* a constructor ended in ZeroDivisionError and left the caller no modulation
C24_Witness ==
    /\ err = ZeroDivisionError
    /\ modulations = <<>>
    /\ \E dim \in Dims, va \in Vas, fock \in Focks :
           BinomialQAM(dim, 1, va, fock).raised = err

\* the indices of n the sequence drawn misses
MissingIn(drawnIndices, n) == {x \in 0..(n - 1) : Occurrences(drawnIndices, x) = 0}

\* the indices of the constellation the generator never drew for simulator s
UnobservedIndices(s) == MissingIn(DrawnIndices(s), Len(ModulationOf(s).constellation))

\* the indices of n outside missing, in ascending order
Others(missing, n) == SelectSeq([k \in 1..n |-> k - 1], LAMBDA x : x \notin missing)

\* the indices it drew, in ascending order
ObservedIndices(s) == Others(UnobservedIndices(s), Len(ModulationOf(s).constellation))

\* the sum of the terms weight * conj(factor) * betak (finite_size_simulator.py
\* 127-133) of the indices obs alone
TermsOf(obs, distribution, factors, betas) ==
    CSum([j \in 1..Len(obs) |->
            CMul(CScale(distribution[obs[j] + 1], CConj(factors[obs[j] + 1])),
                 betas[obs[j] + 1])])

ObservedC1(s) ==
    TermsOf(ObservedIndices(s), ModulationOf(s).distribution, ModulationOf(s).a_tau_mean,
            simulators[s].betas)

ObservedC2(s) ==
    TermsOf(ObservedIndices(s), ModulationOf(s).distribution, ModulationOf(s).constellation,
            simulators[s].betas)

WeightOf(obs, distribution) == Sum([j \in 1..Len(obs) |-> distribution[obs[j] + 1]])

\* the distribution's weight on the drawn indices
ObservedWeight(s) == WeightOf(ObservedIndices(s), ModulationOf(s).distribution)

Quarters(ks) == {Reduce(k, 4) : k \in ks}
FloatTriples == Quarters(9..12) \X Quarters(9..12) \X Quarters({2, 3, 8, 10, 13})

InitFloat ==
    /\ modulations = <<>>
    /\ channels = <<>>
    /\ detectors = <<IdealHeterodyneDetector>>
    /\ simulators = <<>>
    /\ drawn = <<>>
    /\ rng = 0
    /\ ret = NoReturn
    /\ err = Zero

\* detectors[d].sympl(V, W, Z), called with Python floats
CallFloatSympl(d, V, W, Z) ==
    /\ ret' = [op |-> "sympl", sim |-> 0, value |-> FloatIdealSympl(V, W, Z, FALSE),
               args |-> <<V, W, Z>>, detector |-> d]
    /\ UNCHANGED <<modulations, channels, detectors, simulators, drawn, rng, err>>

\* detectors[d].holevo_bound(V, W, Z), called with Python floats
CallFloatHolevoBound(d, V, W, Z) ==
    /\ ret' = [op |-> "holevo_bound", sim |-> 0,
               value |-> <<FloatHolevoBound(V, W, Z, FALSE)>>,
               args |-> <<V, W, Z>>, detector |-> d]
    /\ UNCHANGED <<modulations, channels, detectors, simulators, drawn, rng, err>>

NextFloat ==
    \/ \E d \in 1..Len(detectors), vwz \in FloatTriples :
            CallFloatSympl(d, vwz[1], vwz[2], vwz[3])
    \/ \E d \in 1..Len(detectors), vwz \in FloatTriples :
            CallFloatHolevoBound(d, vwz[1], vwz[2], vwz[3])

SpecFloat == InitFloat /\ [][NextFloat]_vars

\* V = W or 2 |Z| <= |V + W|, the triple being of quarters and the comparison exact
RadicandCondition(V, W, Z) == V = W \/ Le(Mul(Two, AbsV(Z)), AbsV(Add(V, W)))

\* the inner square root of sympl is taken of a non-negative number
InnerRootDefined(V, W, Z) ==
    Le(Zero, FloatDiscriminant(FloatDelta(V, W, Z), FloatGamma(V, W, Z)))

\* C26, in what it says of the outcomes of sympl: gamma(V, W, Z), being
\* (V W - Z^2)^2, is never negative; delta^2 - 4 gamma being
\* (V - W)^2 ((V + W)^2 - 4 Z^2), the inner square root has a non-negative
\* radicand exactly when V = W or 2 |Z| <= |V + W|; and the eigenvalues
\* returned have v1 >= v2.
C26_SymplAlgebra ==
    ret.op = "sympl" =>
        /\ Le(Zero, FloatGamma(ret.args[1], ret.args[2], ret.args[3]))
        /\ InnerRootDefined(ret.args[1], ret.args[2], ret.args[3])
             <=> RadicandCondition(ret.args[1], ret.args[2], ret.args[3])
        /\ (IsFin(ret.value[1]) /\ IsFin(ret.value[2])) => Le(ret.value[2], ret.value[1])

\* sympl of a triple with V = W, W >= 1 and V W - Z^2 >= 1 ended in the domain
\* error of the inner square root, gamma being no less than 0
C26_Witness ==
    /\ ret.op = "sympl"
    /\ ret.args[1] = ret.args[2]
    /\ Le(One, Sub(Mul(ret.args[1], ret.args[2]), Sq(ret.args[3])))
    /\ Le(Zero, FloatGamma(ret.args[1], ret.args[2], ret.args[3]))
    /\ ~InnerRootDefined(ret.args[1], ret.args[2], ret.args[3])
    /\ ret.value[1] = ValueError
====
